---- MODULE Spec2Model ----
(***************************************************************************)
(* TychoExecutor (src/src/executor/Executor.ts, lines 1-249): the bridge   *)
(* between the sandbox and the native emulator module; with it the remote  *)
(* contract storage, the signature utilities and the module loader.        *)
(*                                                                         *)
(* Representation of JavaScript values:                                    *)
(*   - a primitive is a string: the tokens "true", "false", "null", "0",   *)
(*     "1" and "undefined" stand for the JS values of that spelling, any   *)
(*     other string stands for itself;                                     *)
(*   - an object is a function from its own keys to values, so "k in obj"  *)
(*     is  k \in DOMAIN obj  and a key holding undefined is a key present  *)
(*     with the value "undefined";                                         *)
(*   - a position that holds an object or undefined (this.emulator,        *)
(*     res.output, vmResults) is a set: {} for undefined, {obj} otherwise. *)
(***************************************************************************)
EXTENDS Integers, Sequences, FiniteSets, TLC

VARIABLES
    emulator,   \* emulator[e]: the private field this.emulator of executor e
    handles,    \* native engine heap: handles[p] = {} (free) or {[config, verbosity]}
    executorParams, \* executorParams[e]: the private field this.executorParams
    reuse,      \* reuse[e]: the native calls of e's calls while they all carry one key
    last,       \* the most recent facade call: arguments, native calls, outcome
    calls,      \* calls[c]: how far the facade call c has run (in-flight view)
    stack,      \* the facade call on the JavaScript call stack, "" when none is
    contracts,  \* TychoRemoteBlockchainStorage.contracts: address text -> contract
    lookups,    \* lookups[l]: how far the getContract call l has run
    fetched,    \* fetched[a]: remote lookups sent and SmartContract objects made
                \* for the address a since the last clearKnownContracts
    crypto,     \* the object cryptoWithSignatureId returned, {} before any call:
                \* its getters, the id last set, the id before the last setSignatureId
    signed,     \* the most recent crypto.sign call and the last signVerify of its result
    domain,     \* the most recent signature-domain call, and the signature made with it
    globalIdCall, \* the most recent getGlobalId call, and the setSignatureId call on its value
    cryptoObjects, \* the crypto objects two holders got, and the library they copy
    wasm        \* the load state of the emulator module (src/src/index.ts)

executorVars == <<emulator, handles, executorParams, reuse, last, calls, stack>>
storageVars == <<contracts, lookups, fetched>>
signVars == <<crypto, signed>>
utilsVars == <<domain, globalIdCall, cryptoObjects, wasm>>
vars == <<emulator, handles, executorParams, reuse, last, calls, stack,
          contracts, lookups, fetched, crypto, signed, domain, globalIdCall,
          cryptoObjects, wasm>>

-----------------------------------------------------------------------------
(* Bounds of the model                                                     *)

\* native addresses the engine can hand out
MaxPtr == 2
\* create_emulator calls counted while an executor's calls all carry one key
MaxCreates == 3
\* remote lookups and SmartContract objects counted per address
MaxFetched == 2

Ptrs == 1..MaxPtr
Executors == {"ex1"}
Configs == {"cfgA", "cfgB"}
Verbosities == {"short", "full"}
Messages == {"X1", "boom"}

-----------------------------------------------------------------------------
(* JavaScript helpers                                                      *)

UNDEF == "undefined"
Undefined == {}
Some(x) == {x}
The(s) == CHOOSE x \in s : TRUE
EmptyObj == <<>>

\* obj[k] for a primitive-valued key
Get(obj, k) == IF k \in DOMAIN obj THEN obj[k] ELSE UNDEF
\* obj[k] for an object-valued key
GetObj(obj, k) == IF k \in DOMAIN obj THEN Some(obj[k]) ELSE Undefined
\* const { k, ...rest } = obj
Rest(obj, k) == [x \in DOMAIN obj \ {k} |-> obj[x]]

\* the truthiness a condition applies to a value
ToBoolean(v) == v \notin {"false", "null", "undefined", "0", ""}

\* s contains t as a substring
Contains(s, t) ==
    \E i \in 1..(Len(s) - Len(t) + 1) : SubSeq(s, i, i + Len(t) - 1) = t

verbosityToNum(v) ==
    CASE v = "short" -> 0
      [] v = "full" -> 1
      [] v = "full_location" -> 2
      [] v = "full_location_gas" -> 3
      [] v = "full_location_stack" -> 4
      [] v = "full_location_stack_verbose" -> 5

-----------------------------------------------------------------------------
(* Wire codec: how argument values become text.  A JSON text is modelled   *)
(* as a tree: an object is a function from its keys to the JSON texts of   *)
(* its values, a leaf is the token JSON.stringify writes for the value     *)
(* (a string in double quotes, a number in decimal, true, false, null).    *)

Digits == "0123456789abcdef"
Digit(d) == SubSeq(Digits, d + 1, d + 1)

RECURSIVE Decimal(_)
Decimal(n) == IF n < 10 THEN Digit(n) ELSE Decimal(n \div 10) \o Digit(n % 10)

\* BigInt.prototype.toString() and Number.prototype.toString() of an integer
IntToString(n) == IF n < 0 THEN "-" \o Decimal(0 - n) ELSE Decimal(n)

\* Buffer.prototype.toString("hex"): two hex digits per byte
RECURSIVE BufferToHex(_)
BufferToHex(buf) ==
    IF buf = <<>> THEN ""
    ELSE Digit(Head(buf) \div 16) \o Digit(Head(buf) % 16) \o BufferToHex(Tail(buf))

\* cell.toBoc().toString("base64"): the text that stands for the cell's BOC
CellToBase64(cell) == "base64:" \o cell

\* JS values put into a params object
JsString(str) == [t |-> "string", s |-> str, n |-> 0, o |-> EmptyObj]
JsNumber(num) == [t |-> "number", s |-> "", n |-> num, o |-> EmptyObj]
JsBoolean(b) == [t |-> "boolean", s |-> IF b THEN "true" ELSE "false", n |-> 0,
                 o |-> EmptyObj]
JsObject(obj) == [t |-> "object", s |-> "", n |-> 0, o |-> obj]
JsUndefined == [t |-> "undefined", s |-> "", n |-> 0, o |-> EmptyObj]
JsNull == [t |-> "null", s |-> "", n |-> 0, o |-> EmptyObj]

\* args.randomSeed?.toString("hex"): undefined for a null or undefined seed
RandomSeedHex(args) ==
    IF args.randomSeed = Undefined THEN JsUndefined
    ELSE JsString(BufferToHex(The(args.randomSeed)))
\* args.debugEnabled: a boolean, or undefined when the caller gave none
DebugEnabled(args) ==
    IF args.debugEnabled = Undefined THEN JsUndefined
    ELSE JsBoolean(The(args.debugEnabled))

Quote(str) == "\"" \o str \o "\""

\* JSON.stringify of a value that is not an object
JSONToken(v) ==
    CASE v.t = "string" -> Quote(v.s)
      [] v.t = "number" -> IntToString(v.n)
      [] v.t = "boolean" -> v.s
      [] v.t = "null" -> "null"

\* JSON.stringify(obj): keys holding undefined are left out; one level of nesting
JSONStringify(obj) ==
    [k \in {x \in DOMAIN obj : obj[x].t # "undefined"} |->
        IF obj[k].t = "object"
        THEN [j \in {x \in DOMAIN obj[k].o : obj[k].o[x].t # "undefined"} |->
                 JSONToken(obj[k].o[j])]
        ELSE JSONToken(obj[k])]

-----------------------------------------------------------------------------
(* The native module (this.module): its call contract as the executor sees *)
(* it.  Every call either returns or throws; which of the two, and the     *)
(* value returned, is the engine's choice (an outcome o).                  *)

Live(hs) == {p \in Ptrs : hs[p] # {}}

\* a destroy that returns has freed the handle; one that throws may or may not have
DestroyOutcomes ==
    {o \in [threw : BOOLEAN, freed : BOOLEAN] : ~o.threw => o.freed}
\* a create that returns hands out an address; ptr = 0 goes with a throw
CreateOutcomes ==
    {o \in [threw : BOOLEAN, ptr : Ptrs \cup {0}] : o.threw <=> (o.ptr = 0)}

\* this.module.destroy_emulator(ptr); destroying a freed address changes no handle
destroy_emulator(hs, ptr, o) ==
    [handles |-> IF o.freed THEN [hs EXCEPT ![ptr] = {}] ELSE hs,
     threw |-> o.threw]

\* this.module.create_emulator(config, verbosity): a fresh handle at a free address
create_emulator(hs, config, verbosity, o) ==
    IF o.threw \/ o.ptr \notin Ptrs \ Live(hs)
    THEN [handles |-> hs, threw |-> TRUE, ptr |-> 0]
    ELSE [handles |-> [hs EXCEPT ![o.ptr] =
                          {[config |-> config, verbosity |-> verbosity]}],
          threw |-> FALSE, ptr |-> o.ptr]

\* one entry of the log of native calls of a facade call; live is the set of
\* live handles when the call was made; libs, message and params are the
\* arguments of that name of emulate_with_emulator and run_get_method
\* (message "null" for none, "" for the other native calls)
NativeCall(fn, ptr, config, verbosity, threw, hs) ==
    [fn |-> fn, ptr |-> ptr, config |-> config, verbosity |-> verbosity,
     libs |-> JsUndefined, message |-> "", params |-> EmptyObj,
     threw |-> threw, live |-> Live(hs)]

NativeError == "native call failed"

-----------------------------------------------------------------------------
(* Engine handle cache.  st is the executor's view while a call runs:      *)
(* [emulator, handles, trace, threw, error].                               *)

\* createEmulator without the destroy of the prior handle
createEmulator_NoDestroy(st, config, verbosity, od, oc) ==
    LET c == create_emulator(st.handles, config, verbosity, oc)
    IN  [st EXCEPT
            !.handles = c.handles,
            !.trace = Append(@, NativeCall("create_emulator", c.ptr, config,
                          verbosity, c.threw, st.handles)),
            !.threw = c.threw,
            !.error = IF c.threw THEN NativeError ELSE @,
            !.emulator = IF c.threw THEN @
                         ELSE Some([ptr |-> c.ptr, config |-> config,
                                    verbosity |-> verbosity])]

\* createEmulator with the destroy wrapped in a try/catch that carries on
createEmulator_SwallowDestroyError(st, config, verbosity, od, oc) ==
    LET d == destroy_emulator(st.handles, The(st.emulator).ptr, od)
        afterDestroy ==
            IF st.emulator # Undefined
            THEN [st EXCEPT
                    !.handles = d.handles,
                    !.trace = Append(@, NativeCall("destroy_emulator",
                                  The(st.emulator).ptr, "", 0, d.threw, st.handles))]
            ELSE st
        c == create_emulator(afterDestroy.handles, config, verbosity, oc)
    IN  [afterDestroy EXCEPT
            !.handles = c.handles,
            !.trace = Append(@, NativeCall("create_emulator", c.ptr, config,
                          verbosity, c.threw, afterDestroy.handles)),
            !.threw = c.threw,
            !.error = IF c.threw THEN NativeError ELSE @,
            !.emulator = IF c.threw THEN @
                         ELSE Some([ptr |-> c.ptr, config |-> config,
                                    verbosity |-> verbosity])]

createEmulator(st, config, verbosity, od, oc) ==
    LET d == destroy_emulator(st.handles, The(st.emulator).ptr, od)
        afterDestroy ==
            IF st.emulator # Undefined
            THEN [st EXCEPT
                    !.handles = d.handles,
                    !.trace = Append(@, NativeCall("destroy_emulator",
                                  The(st.emulator).ptr, "", 0, d.threw, st.handles)),
                    !.threw = d.threw,
                    !.error = IF d.threw THEN NativeError ELSE @]
            ELSE st
        c == create_emulator(afterDestroy.handles, config, verbosity, oc)
    IN  IF afterDestroy.threw
        THEN afterDestroy
        ELSE [afterDestroy EXCEPT
                !.handles = c.handles,
                !.trace = Append(@, NativeCall("create_emulator", c.ptr, config,
                              verbosity, c.threw, afterDestroy.handles)),
                !.threw = c.threw,
                !.error = IF c.threw THEN NativeError ELSE @,
                !.emulator = IF c.threw THEN @
                             ELSE Some([ptr |-> c.ptr, config |-> config,
                                        verbosity |-> verbosity])]

\* getEmulatorPointer without the cache test
getEmulatorPointer_AlwaysCreate(st, config, verbosity, od, oc) ==
    createEmulator(st, config, verbosity, od, oc)

\* getEmulatorPointer comparing the config only
getEmulatorPointer_ConfigOnly(st, config, verbosity, od, oc) ==
    IF \/ st.emulator = Undefined
       \/ config # The(st.emulator).config
    THEN createEmulator(st, config, verbosity, od, oc)
    ELSE st

getEmulatorPointer(st, config, verbosity, od, oc) ==
    IF \/ st.emulator = Undefined
       \/ verbosity # The(st.emulator).verbosity
       \/ config # The(st.emulator).config
    THEN createEmulator(st, config, verbosity, od, oc)
    ELSE st

-----------------------------------------------------------------------------
(* Responses of the native module: the JSON text it returns.  A text is    *)
(* [kind, value]: kind "object" parses to the object value, kind "null"    *)
(* parses to null, kind "malformed" does not parse.                        *)

DebugOpts == {EmptyObj, [debug_log |-> "dbg1"]}

\* output of an emulation the VM completed; the last one lacks fields
SuccessOutputs ==
    {[success |-> "true", transaction |-> "tx1", shard_account |-> "acc1",
      vm_log |-> "vmlog1", actions |-> a] @@ d :
        a \in {"acts1", "null"}, d \in DebugOpts}
    \cup {[success |-> "true", transaction |-> "tx2"]}

VmDetails ==
    {EmptyObj, [vm_log |-> "vmlog1", vm_exit_code |-> "7"],
     [vm_log |-> "null"], [vm_exit_code |-> "7"]}

\* output of an emulation that failed, inside the VM (vm_log) or before it
FailureOutputs ==
    {[success |-> "false", error |-> "err1"] @@ v @@ d :
        v \in VmDetails, d \in DebugOpts}

\* output of a get-method run
GetMethodOutputs ==
    {[success |-> "true", stack |-> "stack1", gas_used |-> "10",
      vm_exit_code |-> "0", vm_log |-> "vmlog1"] @@ d : d \in DebugOpts}
    \cup {[success |-> "false", error |-> "err1"]}

\* The envelopes: a recognised tag with the body that goes with it, a tag that
\* is absent or is neither true nor false, and bodies that do not fit the tag.
Ok(o) == [ok |-> "true", output |-> o, logs |-> "logs1"]
Err(m) == [ok |-> "false", message |-> m]

Envelopes(outputs, oneOutput) ==
    {Ok(o) : o \in outputs}
    \cup {Err(m) : m \in Messages}
    \cup {[ok |-> "true"], [ok |-> "false"], EmptyObj}
    \cup {[message |-> m] : m \in Messages}
    \cup {[ok |-> "null", message |-> m] : m \in Messages}
    \cup {[ok |-> t] @@ [output |-> oneOutput, logs |-> "logs1"] :
            t \in {"false", "null", "1"}}
    \cup {[output |-> oneOutput, logs |-> "logs1"], [ok |-> "1"]}

NoRaw == [kind |-> "none", value |-> EmptyObj]
Answer(v) == [threw |-> FALSE, raw |-> [kind |-> "object", value |-> v]]
Thrown == [threw |-> TRUE, raw |-> NoRaw]

\* what a native call that answers with JSON does: throw, or return a text
Outcomes(outputs, oneOutput) ==
    {Thrown,
     [threw |-> FALSE, raw |-> [kind |-> "malformed", value |-> EmptyObj]],
     [threw |-> FALSE, raw |-> [kind |-> "null", value |-> EmptyObj]]}
    \cup {Answer(v) : v \in Envelopes(outputs, oneOutput)}

VmSuccess ==
    [success |-> "true", transaction |-> "tx1", shard_account |-> "acc1",
     vm_log |-> "vmlog1", actions |-> "acts1"]
VmFailure ==
    [success |-> "false", error |-> "err1", vm_log |-> "vmlog1",
     vm_exit_code |-> "7"]
GetMethodSuccess ==
    [success |-> "true", stack |-> "stack1", gas_used |-> "10",
     vm_exit_code |-> "0", vm_log |-> "vmlog1"]

EmulateOutcomes == Outcomes(SuccessOutputs \cup FailureOutputs, VmSuccess)
GetMethodOutcomes == Outcomes(GetMethodOutputs, GetMethodSuccess)

\* one outcome of each kind: a throw, a protocol failure, a VM success, a VM failure
FewEmulateOutcomes ==
    {Thrown, Answer(Err("boom")), Answer(Ok(VmSuccess)), Answer(Ok(VmFailure))}
FewGetMethodOutcomes ==
    {Thrown, Answer(Err("boom")), Answer(Ok(GetMethodSuccess))}

\* JSON.parse(text)
JSONParse(raw) ==
    [threw |-> raw.kind = "malformed", isNull |-> raw.kind = "null", value |-> raw.value]

SyntaxError == "Unexpected token in JSON"
TypeError == "Cannot read properties of null or undefined"

-----------------------------------------------------------------------------
(* Result normalisation and the facade operations                          *)

Throw(st, message) == [st EXCEPT !.threw = TRUE, !.error = message]
Return(st, value) == [st EXCEPT !.result = Some(value)]

\* the error without the engine's message
EmulationError_NoMessage(res) == "Unknown emulation error"

\* new Error(`Unknown emulation error: ${res.message}`)
EmulationError(res) == "Unknown emulation error: " \o Get(res, "message")

\* the result built from camelCase keys of the output
EmulationResult_CamelCase(output) ==
    IF ToBoolean(Get(output, "success"))
    THEN [success |-> "true",
          transaction |-> Get(output, "transaction"),
          shardAccount |-> Get(output, "shardAccount"),
          vmLog |-> Get(output, "vmLog"),
          actions |-> Get(output, "actions")]
    ELSE [success |-> "false",
          error |-> Get(output, "error"),
          vmResults |-> IF "vm_log" \in DOMAIN output
                        THEN Some([vmLog |-> Get(output, "vm_log"),
                                   vmExitCode |-> Get(output, "vm_exit_code")])
                        ELSE Undefined]

\* the result with vmResults decided by the value of vm_log, not by the key
EmulationResult_TruthyVmLog(output) ==
    IF ToBoolean(Get(output, "success"))
    THEN [success |-> "true",
          transaction |-> Get(output, "transaction"),
          shardAccount |-> Get(output, "shard_account"),
          vmLog |-> Get(output, "vm_log"),
          actions |-> Get(output, "actions")]
    ELSE [success |-> "false",
          error |-> Get(output, "error"),
          vmResults |-> IF ToBoolean(Get(output, "vm_log"))
                        THEN Some([vmLog |-> Get(output, "vm_log"),
                                   vmExitCode |-> Get(output, "vm_exit_code")])
                        ELSE Undefined]

\* the result object built at the end of runCommon
EmulationResult(output) ==
    IF ToBoolean(Get(output, "success"))
    THEN [success |-> "true",
          transaction |-> Get(output, "transaction"),
          shardAccount |-> Get(output, "shard_account"),
          vmLog |-> Get(output, "vm_log"),
          actions |-> Get(output, "actions")]
    ELSE [success |-> "false",
          error |-> Get(output, "error"),
          vmResults |-> IF "vm_log" \in DOMAIN output
                        THEN Some([vmLog |-> Get(output, "vm_log"),
                                   vmExitCode |-> Get(output, "vm_exit_code")])
                        ELSE Undefined]

\* runCommon calling the engine a second time when the first response is not ok
runCommon_RetryOnFailure(st, ptr, libs, message, params, oe) ==
    LET call == [NativeCall("emulate_with_emulator", ptr, "", 0, oe.threw, st.handles)
                   EXCEPT !.libs = libs, !.message = message, !.params = params]
        parsed == JSONParse(oe.raw)
        res == parsed.value
        failed == oe.threw \/ parsed.threw \/ parsed.isNull
                      \/ ~ToBoolean(Get(res, "ok"))
        called == [st EXCEPT
                     !.trace = IF failed THEN Append(Append(@, call), call)
                               ELSE Append(@, call),
                     !.raw = oe.raw]
        resOutput == GetObj(res, "output")
    IN  IF oe.threw THEN Throw(called, NativeError)
        ELSE IF parsed.threw THEN Throw(called, SyntaxError)
        ELSE IF parsed.isNull THEN Throw(called, TypeError)
        ELSE IF ~ToBoolean(Get(res, "ok")) THEN Throw(called, EmulationError(res))
        ELSE IF resOutput = Undefined THEN Throw(called, TypeError)
        ELSE Return(called,
                 [result |-> EmulationResult(Rest(The(resOutput), "debug_log")),
                  logs |-> Get(res, "logs"),
                  debugLogs |-> Get(The(resOutput), "debug_log")])

\* runCommon dropping the cached handle when the engine call does not succeed
runCommon_DropHandleOnFailure(st, ptr, libs, message, params, oe) ==
    LET called == [st EXCEPT
                     !.trace = Append(@, [NativeCall("emulate_with_emulator", ptr,
                                   "", 0, oe.threw, st.handles)
                                   EXCEPT !.libs = libs, !.message = message,
                                          !.params = params]),
                     !.raw = oe.raw]
        dropped == [called EXCEPT !.emulator = Undefined]
        parsed == JSONParse(oe.raw)
        res == parsed.value
        resOutput == GetObj(res, "output")
    IN  IF oe.threw THEN Throw(dropped, NativeError)
        ELSE IF parsed.threw THEN Throw(dropped, SyntaxError)
        ELSE IF parsed.isNull THEN Throw(dropped, TypeError)
        ELSE IF ~ToBoolean(Get(res, "ok")) THEN Throw(dropped, EmulationError(res))
        ELSE IF resOutput = Undefined THEN Throw(called, TypeError)
        ELSE Return(called,
                 [result |-> EmulationResult(Rest(The(resOutput), "debug_log")),
                  logs |-> Get(res, "logs"),
                  debugLogs |-> Get(The(resOutput), "debug_log")])

runCommon(st, ptr, libs, message, params, oe) ==
    LET called == [st EXCEPT
                     !.trace = Append(@, [NativeCall("emulate_with_emulator", ptr,
                                   "", 0, oe.threw, st.handles)
                                   EXCEPT !.libs = libs, !.message = message,
                                          !.params = params]),
                     !.raw = oe.raw]
        parsed == JSONParse(oe.raw)
        res == parsed.value
        resOutput == GetObj(res, "output")
    IN  IF oe.threw THEN Throw(called, NativeError)
        ELSE IF parsed.threw THEN Throw(called, SyntaxError)
        ELSE IF parsed.isNull THEN Throw(called, TypeError)
        ELSE IF ~ToBoolean(Get(res, "ok")) THEN Throw(called, EmulationError(res))
        ELSE IF resOutput = Undefined THEN Throw(called, TypeError)
        ELSE Return(called,
                 [result |-> EmulationResult(Rest(The(resOutput), "debug_log")),
                  logs |-> Get(res, "logs"),
                  debugLogs |-> Get(The(resOutput), "debug_log")])

\* runCommonArgsToInternalParams passing lt on as a number
runCommonArgsToInternalParams_NumericLt(args, ep) ==
    [unixtime |-> JsNumber(args.now),
     lt |-> JsNumber(args.lt),
     rand_seed |-> RandomSeedHex(args),
     ignore_chksig |-> JsBoolean(args.ignoreChksig),
     debug_enabled |-> DebugEnabled(args),
     disable_delete_frozen_accounts |->
         IF "disableDeleteFrozenAccounts" \in DOMAIN ep
         THEN JsBoolean(ep.disableDeleteFrozenAccounts) ELSE JsUndefined,
     charge_action_fees_on_fail |->
         IF "chargeActionFeesOnFail" \in DOMAIN ep
         THEN JsBoolean(ep.chargeActionFeesOnFail) ELSE JsUndefined,
     full_body_in_bounced |->
         IF "fullBodyInBounced" \in DOMAIN ep
         THEN JsBoolean(ep.fullBodyInBounced) ELSE JsUndefined]

\* a key of TychoExecutorParams, undefined when the caller did not set it
ExecutorParam(ep, k) == IF k \in DOMAIN ep THEN JsBoolean(ep[k]) ELSE JsUndefined

runCommonArgsToInternalParams(args, ep) ==
    [unixtime |-> JsNumber(args.now),
     lt |-> JsString(IntToString(args.lt)),
     rand_seed |-> RandomSeedHex(args),
     ignore_chksig |-> JsBoolean(args.ignoreChksig),
     debug_enabled |-> DebugEnabled(args),
     disable_delete_frozen_accounts |->
         ExecutorParam(ep, "disableDeleteFrozenAccounts"),
     charge_action_fees_on_fail |->
         ExecutorParam(ep, "chargeActionFeesOnFail"),
     full_body_in_bounced |-> ExecutorParam(ep, "fullBodyInBounced")]

\* libs sent as null when the caller gave none
LibsBoc_NullWhenAbsent(args) ==
    IF args.libs = Undefined THEN JsNull ELSE JsString(CellToBase64(The(args.libs)))

\* args.libs?.toBoc().toString("base64")
LibsBoc(args) ==
    IF args.libs = Undefined THEN JsUndefined
    ELSE JsString(CellToBase64(The(args.libs)))

runTransaction(st, args, od, oc, oe) ==
    LET params == runCommonArgsToInternalParams(args, st.executorParams)
        got == getEmulatorPointer(st, args.config, verbosityToNum(args.verbosity),
                                  od, oc)
    IN  IF got.threw THEN got
        ELSE runCommon(got, The(got.emulator).ptr, LibsBoc(args),
                       CellToBase64(args.message), JSONStringify(params), oe)

\* runTickTock setting is_tock for a tick
runTickTock_TockOnTick(st, args, od, oc, oe) ==
    LET params == runCommonArgsToInternalParams(args, st.executorParams)
                      @@ [is_tick_tock |-> JsBoolean(TRUE),
                          is_tock |-> JsBoolean(args.which = "tick")]
        got == getEmulatorPointer(st, args.config, verbosityToNum(args.verbosity),
                                  od, oc)
    IN  IF got.threw THEN got
        ELSE runCommon(got, The(got.emulator).ptr, LibsBoc(args), "null",
                       JSONStringify(params), oe)

runTickTock(st, args, od, oc, oe) ==
    LET params == runCommonArgsToInternalParams(args, st.executorParams)
                      @@ [is_tick_tock |-> JsBoolean(TRUE),
                          is_tock |-> JsBoolean(args.which = "tock")]
        got == getEmulatorPointer(st, args.config, verbosityToNum(args.verbosity),
                                  od, oc)
    IN  IF got.threw THEN got
        ELSE runCommon(got, The(got.emulator).ptr, LibsBoc(args), "null",
                       JSONStringify(params), oe)

\* args.address.toString(): the user-friendly text of the address
AddressToString(address) == "friendly:" \o address

\* the params object runGetMethod builds, extra_currencies included
RunGetMethodParams(args) ==
    [code |-> JsString(CellToBase64(args.code)),
     data |-> JsString(CellToBase64(args.data)),
     verbosity |-> JsNumber(verbosityToNum(args.verbosity)),
     libs |-> LibsBoc(args),
     address |-> JsString(AddressToString(args.address)),
     unixtime |-> JsNumber(args.unixTime),
     balance |-> JsString(IntToString(args.balance)),
     rand_seed |-> JsString(BufferToHex(args.randomSeed)),
     gas_limit |-> JsString(IntToString(args.gasLimit)),
     method_id |-> JsNumber(args.methodId),
     debug_enabled |-> DebugEnabled(args)]
    @@ IF args.extraCurrency # Undefined
       THEN [extra_currencies |->
                JsObject([k \in {IntToString(id) : id \in DOMAIN The(args.extraCurrency)}
                    |-> JsString(IntToString(The(args.extraCurrency)[
                            CHOOSE id \in DOMAIN The(args.extraCurrency) :
                                IntToString(id) = k]))])]
       ELSE EmptyObj

\* runGetMethod returning the output with debug_log left in it
runGetMethod_DebugLogInOutput(st, args, og) ==
    LET params == RunGetMethodParams(args)
        called == [st EXCEPT
                     !.trace = Append(@, [NativeCall("run_get_method", 0, args.config,
                                   verbosityToNum(args.verbosity), og.threw,
                                   st.handles)
                                   EXCEPT !.params = JSONStringify(params)]),
                     !.raw = og.raw]
        parsed == JSONParse(og.raw)
        res == parsed.value
        resOutput == GetObj(res, "output")
    IN  IF og.threw THEN Throw(called, NativeError)
        ELSE IF parsed.threw THEN Throw(called, SyntaxError)
        ELSE IF parsed.isNull THEN Throw(called, TypeError)
        ELSE IF ToBoolean(Get(res, "ok"))
        THEN IF resOutput = Undefined THEN Throw(called, TypeError)
             ELSE Return(called,
                      [output |-> The(resOutput),
                       logs |-> Get(res, "logs"),
                       debugLogs |-> Get(The(resOutput), "debug_log")])
        ELSE Throw(called, EmulationError(res))

\* runGetMethod going through the handle cache as the emulation calls do
runGetMethod_ViaHandleCache(st, args, og) ==
    LET params == RunGetMethodParams(args)
        got == getEmulatorPointer(st, args.config, verbosityToNum(args.verbosity),
                   [threw |-> FALSE, freed |-> TRUE], [threw |-> FALSE, ptr |-> 1])
        called == [got EXCEPT
                     !.trace = Append(@, [NativeCall("run_get_method", 0, args.config,
                                   verbosityToNum(args.verbosity), og.threw,
                                   got.handles)
                                   EXCEPT !.params = JSONStringify(params)]),
                     !.raw = og.raw]
        parsed == JSONParse(og.raw)
        res == parsed.value
        resOutput == GetObj(res, "output")
    IN  IF og.threw THEN Throw(called, NativeError)
        ELSE IF parsed.threw THEN Throw(called, SyntaxError)
        ELSE IF parsed.isNull THEN Throw(called, TypeError)
        ELSE IF ToBoolean(Get(res, "ok"))
        THEN IF resOutput = Undefined THEN Throw(called, TypeError)
             ELSE Return(called,
                      [output |-> Rest(The(resOutput), "debug_log"),
                       logs |-> Get(res, "logs"),
                       debugLogs |-> Get(The(resOutput), "debug_log")])
        ELSE Throw(called, EmulationError(res))

runGetMethod(st, args, og) ==
    LET params == RunGetMethodParams(args)
        called == [st EXCEPT
                     !.trace = Append(@, [NativeCall("run_get_method", 0, args.config,
                                   verbosityToNum(args.verbosity), og.threw,
                                   st.handles)
                                   EXCEPT !.params = JSONStringify(params)]),
                     !.raw = og.raw]
        parsed == JSONParse(og.raw)
        res == parsed.value
        resOutput == GetObj(res, "output")
    IN  IF og.threw THEN Throw(called, NativeError)
        ELSE IF parsed.threw THEN Throw(called, SyntaxError)
        ELSE IF parsed.isNull THEN Throw(called, TypeError)
        ELSE IF ToBoolean(Get(res, "ok"))
        THEN IF resOutput = Undefined THEN Throw(called, TypeError)
             ELSE Return(called,
                      [output |-> Rest(The(resOutput), "debug_log"),
                       logs |-> Get(res, "logs"),
                       debugLogs |-> Get(The(resOutput), "debug_log")])
        ELSE Throw(called, EmulationError(res))

\* what this.module.version() does: throw, or return a text
VersionInfo ==
    [emulatorLibCommitHash |-> "c0ffee", emulatorLibCommitDate |-> "2024-01-01"]
VersionOutcomes ==
    {Thrown,
     [threw |-> FALSE, raw |-> [kind |-> "malformed", value |-> EmptyObj]],
     [threw |-> FALSE, raw |-> [kind |-> "null", value |-> EmptyObj]],
     Answer(VersionInfo), Answer(EmptyObj)}

getVersion(st, ov) ==
    LET called == [st EXCEPT
                     !.trace = Append(@, NativeCall("version", 0, "", 0, ov.threw,
                                   st.handles)),
                     !.raw = ov.raw]
        parsed == JSONParse(ov.raw)
        v == parsed.value
    IN  IF ov.threw THEN Throw(called, NativeError)
        ELSE IF parsed.threw THEN Throw(called, SyntaxError)
        ELSE IF parsed.isNull THEN Throw(called, TypeError)
        ELSE Return(called,
                 [commitHash |-> Get(v, "emulatorLibCommitHash"),
                  commitDate |-> Get(v, "emulatorLibCommitDate")])

-----------------------------------------------------------------------------
(* TychoRemoteBlockchainStorage and its JrpcClient                         *)
(* (src/src/blockchain/BlockchainStorage.ts).  A response body is a JS     *)
(* value as above: JsObject, JsString, JsNumber, JsNull.                   *)

\* the text of a decimal integer and its value: BigInt(text)
DecimalDigits == {Digit(d) : d \in 0..9}
IsDecimal(str) ==
    LET body == IF Len(str) > 1 /\ SubSeq(str, 1, 1) = "-"
                THEN SubSeq(str, 2, Len(str)) ELSE str
    IN  Len(body) >= 1 /\ \A i \in 1..Len(body) : SubSeq(body, i, i) \in DecimalDigits
RECURSIVE ParseDecimal(_)
ParseDecimal(str) ==
    IF Len(str) = 0 THEN 0
    ELSE ParseDecimal(SubSeq(str, 1, Len(str) - 1)) * 10
         + (CHOOSE d \in 0..9 : Digit(d) = SubSeq(str, Len(str), Len(str)))
ParseInteger(str) ==
    IF SubSeq(str, 1, 1) = "-" THEN 0 - ParseDecimal(SubSeq(str, 2, Len(str)))
    ELSE ParseDecimal(str)


Field(v, k) == IF v.t = "object" /\ k \in DOMAIN v.o THEN v.o[k] ELSE JsUndefined

\* responseSchema.parse(res.data) accepts
responseSchema(d) ==
    /\ d.t = "object"
    /\ Field(d, "jsonrpc") = JsString("2.0")
    /\ Field(d, "id").t \in {"number", "string", "null"}

timingsSchema(v) ==
    /\ v.t = "object"
    /\ Field(v, "genLt").t = "string"
    /\ Field(v, "genUtime").t = "number"

lastTransactionIdSchema(v) ==
    /\ v.t = "object"
    /\ Field(v, "lt").t = "string"
    /\ Field(v, "hash").t = "string"

\* accountSchema.parse(data.result) accepts; the type it then reports
accountSchema(v) ==
    \/ /\ Field(v, "type") = JsString("exists")
       /\ Field(v, "account").t = "string"
       /\ timingsSchema(Field(v, "timings"))
       /\ lastTransactionIdSchema(Field(v, "lastTransactionId"))
    \/ /\ Field(v, "type") = JsString("notExists")
       /\ timingsSchema(Field(v, "timings"))

\* Cell.fromBase64(text) and loadAccount succeed on the text of an account BOC
IsAccountBoc(text) == Len(text) > 4 /\ SubSeq(text, 1, 4) = "boc:"
\* BigInt(text) succeeds
IsBigIntText(text) == text = "" \/ IsDecimal(text)

Failed(message) == [threw |-> TRUE, error |-> message, account |-> Undefined]

\* getAccount accepting any HTTP status
getAccount_NoStatusCheck(res) ==
    LET data == res.data
        result == Field(data, "result")
        id == Field(result, "lastTransactionId")
    IN  IF res.rejected THEN Failed("request failed")
        ELSE IF ~responseSchema(data) THEN Failed("ZodError")
        ELSE IF result.t \in {"undefined", "null"} THEN Failed("Bad response")
        ELSE IF ~accountSchema(result) THEN Failed("ZodError")
        ELSE IF Field(result, "type") = JsString("exists")
        THEN IF ~IsAccountBoc(Field(result, "account").s)
             THEN Failed("invalid BOC")
             ELSE IF ~IsBigIntText(id.o.lt.s) THEN Failed("SyntaxError")
             ELSE [threw |-> FALSE, error |-> "",
                   account |-> Some([state |-> Field(result, "account").s,
                                     balance |-> Field(result, "account").s,
                                     lastTransaction |->
                                         Some([lt |-> ParseInteger(id.o.lt.s),
                                               hash |-> id.o.hash.s])])]
        ELSE [threw |-> FALSE, error |-> "",
              account |-> Some([state |-> "uninit", balance |-> "0",
                                lastTransaction |-> Undefined])]

\* JrpcClient.getAccount, from the outcome res of axios.request on
getAccount(res) ==
    LET data == res.data
        result == Field(data, "result")
        id == Field(result, "lastTransactionId")
    IN  IF res.rejected THEN Failed("request failed")
        ELSE IF res.status # 200 THEN Failed(res.statusText)
        ELSE IF ~responseSchema(data) THEN Failed("ZodError")
        ELSE IF result.t \in {"undefined", "null"} THEN Failed("Bad response")
        ELSE IF ~accountSchema(result) THEN Failed("ZodError")
        ELSE IF Field(result, "type") = JsString("exists")
        THEN IF ~IsAccountBoc(Field(result, "account").s)
             THEN Failed("invalid BOC")
             ELSE IF ~IsBigIntText(id.o.lt.s) THEN Failed("SyntaxError")
             ELSE [threw |-> FALSE, error |-> "",
                   account |-> Some([state |-> Field(result, "account").s,
                                     balance |-> Field(result, "account").s,
                                     lastTransaction |->
                                         Some([lt |-> ParseInteger(id.o.lt.s),
                                               hash |-> id.o.hash.s])])]
        ELSE [threw |-> FALSE, error |-> "",
              account |-> Some([state |-> "uninit", balance |-> "0",
                                lastTransaction |-> Undefined])]

\* new SmartContract({...}, blockchain) as getContract builds it
SmartContract(address, account) ==
    LET lt == IF account.lastTransaction = Undefined THEN 0
              ELSE The(account.lastTransaction).lt
    IN  [addr |-> address,
         lastTransactionHash |->
             "0x" \o (IF account.lastTransaction = Undefined THEN "0"
                      ELSE The(account.lastTransaction).hash),
         lastTransactionLt |-> lt,
         lastTransLt |-> IF lt = 0 THEN 0 ELSE lt + 1,
         balance |-> account.balance,
         state |-> account.state]

\* Buffer.from(text, "hex").toString("hex"): the leading pairs of hex digits
RECURSIVE HexPrefix(_)
HexPrefix(text) ==
    IF /\ Len(text) >= 2
       /\ \A i \in 1..2 : \E d \in 0..15 : Digit(d) = SubSeq(text, i, i)
    THEN SubSeq(text, 1, 2) \o HexPrefix(SubSeq(text, 3, Len(text)))
    ELSE ""

\* what the remote answers
GoodTimings == JsObject([genLt |-> JsString("10"), genUtime |-> JsNumber(5)])
LastTransactionId(lt, hash) ==
    JsObject([lt |-> JsString(lt), hash |-> JsString(hash)])
Exists(account, lt, hash) ==
    JsObject([type |-> JsString("exists"), account |-> JsString(account),
              timings |-> GoodTimings,
              lastTransactionId |-> LastTransactionId(lt, hash)])
NotExists == JsObject([type |-> JsString("notExists"), timings |-> GoodTimings])
Envelope(result) ==
    JsObject([jsonrpc |-> JsString("2.0"), id |-> JsNumber(1), result |-> result])

GoodBodies == {Envelope(Exists("boc:acc1", "42", "ab")), Envelope(NotExists)}
\* bodies that fail the envelope schema, hold no result, or fail the account schema
BadBodies ==
    {JsString("<html>"),
     JsObject([jsonrpc |-> JsString("1.0"), id |-> JsNumber(1), result |-> NotExists]),
     JsObject([jsonrpc |-> JsString("2.0"), result |-> NotExists]),
     JsObject([jsonrpc |-> JsString("2.0"), id |-> JsNumber(1),
               error |-> JsString("oops")]),
     Envelope(JsNull),
     Envelope(JsObject([type |-> JsString("frozen"), timings |-> GoodTimings])),
     Envelope(JsObject([type |-> JsString("exists"),
                        account |-> JsString("boc:acc1"),
                        timings |-> GoodTimings])),
     Envelope(JsObject([type |-> JsString("notExists")]))}
\* bodies that pass both schemas and hold text that does not decode
UndecodableBodies ==
    {Envelope(Exists("garbage", "42", "ab")),
     Envelope(Exists("boc:acc1", "4x", "ab")),
     Envelope(Exists("boc:acc1", "42", "zz"))}

HttpResponse(status, body) ==
    [rejected |-> FALSE, status |-> status,
     statusText |-> IF status = 200 THEN "OK" ELSE "status " \o IntToString(status),
     data |-> body]
Rejected == [rejected |-> TRUE, status |-> 0, statusText |-> "", data |-> JsUndefined]
NoResponse == [rejected |-> FALSE, status |-> 0, statusText |-> "", data |-> JsUndefined]

\* outcomes of axios.request
Responses ==
    {Rejected}
    \cup {HttpResponse(200, b) : b \in GoodBodies \cup BadBodies \cup UndecodableBodies}
    \cup {HttpResponse(st, b) : st \in {204, 500}, b \in GoodBodies}

Addresses == {"addrA", "addrB"}
Lookups == {"lookup1", "lookup2"}
IdleLookup ==
    [pc |-> "idle", address |-> "", requests |-> 0, response |-> NoResponse,
     threw |-> FALSE, error |-> "", result |-> Undefined]

NothingFetched == [requests |-> 0, created |-> 0]
\* one more, counted up to MaxFetched
Counted1(n) == IF n < MaxFetched THEN n + 1 ELSE n

\* getContract up to its await: a cached contract is returned at once,
\* otherwise the request goes out
GetContract(l) ==
    /\ lookups[l].pc \in {"idle", "done"}
    /\ \E address \in Addresses :
          IF AddressToString(address) \in DOMAIN contracts
          THEN /\ lookups' = [lookups EXCEPT ![l] =
                     [IdleLookup EXCEPT
                        !.pc = "done", !.address = address,
                        !.result = Some(contracts[AddressToString(address)])]]
               /\ UNCHANGED fetched
          ELSE /\ lookups' = [lookups EXCEPT ![l] =
                     [IdleLookup EXCEPT
                        !.pc = "awaiting", !.address = address, !.requests = 1]]
               /\ fetched' = [fetched EXCEPT ![address].requests = Counted1(@)]
    /\ UNCHANGED <<contracts, executorVars, signVars, utilsVars>>

\* getContract from its await on: the request settles
GetContractResume(l) ==
    /\ lookups[l].pc = "awaiting"
    /\ \E res \in Responses :
          LET got == getAccount(res)
              account == The(got.account)
              address == lookups[l].address
              badHash == /\ account.lastTransaction # Undefined
                         /\ HexPrefix(The(account.lastTransaction).hash) = ""
              existing == SmartContract(address, account)
              settled == [lookups[l] EXCEPT !.pc = "done", !.response = res]
          IN  IF got.threw
              THEN /\ lookups' = [lookups EXCEPT ![l] =
                         [settled EXCEPT !.threw = TRUE, !.error = got.error]]
                   /\ UNCHANGED <<contracts, fetched>>
              ELSE IF badHash
              THEN /\ lookups' = [lookups EXCEPT ![l] =
                         [settled EXCEPT !.threw = TRUE, !.error = "SyntaxError"]]
                   /\ UNCHANGED <<contracts, fetched>>
              ELSE /\ lookups' = [lookups EXCEPT ![l] =
                         [settled EXCEPT !.result = Some(existing)]]
                   /\ contracts' =
                         [a \in DOMAIN contracts \cup {AddressToString(address)} |->
                             IF a = AddressToString(address) THEN existing
                             ELSE contracts[a]]
                   /\ fetched' = [fetched EXCEPT ![address].created = Counted1(@)]
    /\ UNCHANGED <<executorVars, signVars, utilsVars>>

\* knownContracts()
knownContracts == {contracts[a] : a \in DOMAIN contracts}

ClearKnownContracts ==
    /\ contracts # EmptyObj
    /\ contracts' = EmptyObj
    /\ fetched' = [a \in Addresses |-> NothingFetched]
    /\ UNCHANGED <<lookups, executorVars, signVars, utilsVars>>

NextStorage ==
    \/ \E l \in Lookups : GetContract(l) \/ GetContractResume(l)
    \/ ClearKnownContracts

-----------------------------------------------------------------------------
(* Signature ids (src/src/utils/sign.ts).  A buffer is a sequence of       *)
(* bytes.  The library's sign and signVerify are those of a signature      *)
(* scheme: a signature verifies for the message and the key pair it was    *)
(* made with, and for no other.                                            *)

KeyPairs ==
    {[secretKey |-> "secret1", publicKey |-> "public1"],
     [secretKey |-> "secret2", publicKey |-> "public2"]}

\* originalTonCrypto.sign(data, secretKey)
originalSign(data, secretKey) == [message |-> data, signer |-> secretKey]
\* originalTonCrypto.signVerify(data, signature, publicKey)
originalSignVerify(data, signature, publicKey) ==
    /\ signature.message = data
    /\ [secretKey |-> signature.signer, publicKey |-> publicKey] \in KeyPairs

\* Buffer.alloc(4) after writeInt32BE(n): big-endian two's complement
Int32BE(n) ==
    LET low == IF n < 0 THEN (n + 2147483647) + 1 ELSE n
        top == (low \div 16777216) + (IF n < 0 THEN 128 ELSE 0)
    IN  <<top, (low \div 65536) % 256, (low \div 256) % 256, low % 256>>

\* setSignatureId installing the prefix on sign only
setSignatureId_SignOnly(globalId) ==
    IF globalId # Undefined
    THEN [sign |-> Some(Int32BE(The(globalId))), signVerify |-> Undefined]
    ELSE [sign |-> Undefined, signVerify |-> Undefined]

\* setSignatureId(crypto, globalId): the getters it defines; a property is the
\* prefix its function puts before args[0], {} for the library's own function
setSignatureId(globalId) ==
    IF globalId # Undefined
    THEN [sign |-> Some(Int32BE(The(globalId))),
          signVerify |-> Some(Int32BE(The(globalId)))]
    ELSE [sign |-> Undefined, signVerify |-> Undefined]

\* cryptoWithSignatureId(globalId): a copy of the library with the getters set
cryptoWithSignatureId(globalId) == setSignatureId(globalId)

\* the data passed on with no prefix put before it
Prefixed_NoPrefix(prefix, data) == data

\* Buffer.concat([globalIdBytes, args[0]])
Prefixed(prefix, data) == IF prefix = Undefined THEN data ELSE The(prefix) \o data

\* crypto.sign(data, secretKey)
cryptoSign(c, data, secretKey) == originalSign(Prefixed(c.sign, data), secretKey)
\* crypto.signVerify(data, signature, publicKey)
cryptoSignVerify(c, data, signature, publicKey) ==
    originalSignVerify(Prefixed(c.signVerify, data), signature, publicKey)

\* globalId arguments: null or undefined ({}), or a 32-bit integer
GlobalIds ==
    {Undefined} \cup {Some(g) : g \in {0, 123, -6001, 2147483647, -2147483647}}
Datas == {<<>>, <<72, 105>>}

NoSignature ==
    [made |-> FALSE, globalId |-> Undefined, data |-> <<>>, secretKey |-> "",
     signature |-> originalSign(<<>>, ""), check |-> Undefined]

CryptoWithSignatureId ==
    /\ \E g \in GlobalIds :
          crypto' = Some([fns |-> cryptoWithSignatureId(g), globalId |-> g,
                          before |-> Undefined])
    /\ UNCHANGED <<signed, executorVars, storageVars, utilsVars>>

\* setSignatureId(crypto, globalId) leaving the getters alone for an absent id
SetSignatureId_AbsentLeavesGetters ==
    /\ crypto # Undefined
    /\ \E g \in GlobalIds :
          crypto' = Some([fns |-> IF g = Undefined THEN The(crypto).fns
                                  ELSE setSignatureId(g),
                          globalId |-> g,
                          before |-> Some(The(crypto).globalId)])
    /\ UNCHANGED <<signed, executorVars, storageVars, utilsVars>>

\* setSignatureId(crypto, globalId) on the object made before: both getters are
\* defined anew (the copied properties are configurable); before is the id the
\* object had when the call was made
SetSignatureId ==
    /\ crypto # Undefined
    /\ \E g \in GlobalIds :
          crypto' = Some([fns |-> setSignatureId(g), globalId |-> g,
                          before |-> Some(The(crypto).globalId)])
    /\ UNCHANGED <<signed, executorVars, storageVars, utilsVars>>

Sign ==
    /\ crypto # Undefined
    /\ \E data \in Datas, kp \in KeyPairs :
          signed' = [made |-> TRUE, globalId |-> The(crypto).globalId,
                     data |-> data, secretKey |-> kp.secretKey,
                     signature |-> cryptoSign(The(crypto).fns, data, kp.secretKey),
                     check |-> Undefined]
    /\ UNCHANGED <<crypto, executorVars, storageVars, utilsVars>>

SignVerify ==
    /\ crypto # Undefined /\ signed.made
    /\ \E data \in Datas, kp \in KeyPairs :
          signed' = [signed EXCEPT !.check =
              Some([globalId |-> The(crypto).globalId, data |-> data,
                    publicKey |-> kp.publicKey,
                    verified |-> cryptoSignVerify(The(crypto).fns, data,
                                     signed.signature, kp.publicKey)])]
    /\ UNCHANGED <<crypto, executorVars, storageVars, utilsVars>>

NextSign == CryptoWithSignatureId \/ SetSignatureId \/ Sign \/ SignVerify

-----------------------------------------------------------------------------
(* Signature domains (src/unnamed/part_002, lines 55-144).  A JS integer   *)
(* that may lie outside the signed 32-bit range is held as two halves,     *)
(* hi * 65536 + lo with lo in 0..65535; sha256_sync is a function from     *)
(* buffers to 32-byte buffers.                                             *)

Wide(n) == [hi |-> n \div 65536, lo |-> n % 65536]
IsInt32(w) == w.hi \in -32768..32767

\* Buffer.writeInt32LE(w): the four bytes, least significant first; throws
\* a RangeError for a value outside the signed 32-bit range
writeInt32LE(w) ==
    IF IsInt32(w)
    THEN [threw |-> FALSE,
          bytes |-> <<w.lo % 256, w.lo \div 256, w.hi % 256, (w.hi \div 256) % 256>>]
    ELSE [threw |-> TRUE, bytes |-> <<>>]

RECURSIVE Digest(_)
Digest(buf) ==
    IF buf = <<>> THEN 17
    ELSE (Digest(SubSeq(buf, 1, Len(buf) - 1)) * 31 + buf[Len(buf)] + 1) % 65521

\* originalTonCrypto.sha256_sync(buf): 32 bytes fixed by the input
sha256_sync(buf) == [i \in 1..32 |-> (Digest(buf) * i + i * i) % 256]

TL_ID_SIGNATURE_DOMAIN_L2 == 1907576545
TL_ID_SIGNATURE_DOMAIN_EMPTY == 236803867

SIGNATURE_DOMAIN_EMPTY_HASH ==
    sha256_sync(writeInt32LE(Wide(TL_ID_SIGNATURE_DOMAIN_EMPTY)).bytes)

\* a SignatureDomain | Buffer argument
BufferDomain(buf) ==
    [kind |-> "buffer", buf |-> buf, type |-> "", globalId |-> Wide(0)]
ObjectDomain(type, globalId) ==
    [kind |-> "object", buf |-> <<>>, type |-> type, globalId |-> globalId]

DomainError(message) == [threw |-> TRUE, error |-> message, prefix |-> Undefined]
DomainPrefix(prefix) == [threw |-> FALSE, error |-> "", prefix |-> prefix]

\* signatureDomainPrefix returning a buffer of any length as it is
signatureDomainPrefix_AnyLength(d) ==
    IF d.kind = "buffer"
    THEN IF d.buf = SIGNATURE_DOMAIN_EMPTY_HASH THEN DomainPrefix(Undefined)
         ELSE DomainPrefix(Some(d.buf))
    ELSE CASE d.type = "empty" -> DomainPrefix(Undefined)
           [] d.type = "l2" ->
                IF writeInt32LE(d.globalId).threw THEN DomainError("RangeError")
                ELSE DomainPrefix(Some(sha256_sync(
                         writeInt32LE(Wide(TL_ID_SIGNATURE_DOMAIN_L2)).bytes
                         \o writeInt32LE(d.globalId).bytes)))
           [] OTHER -> DomainError("unknown signature domain type")

\* signatureDomainPrefix(domain): prefix is {} for null, {buffer} otherwise
signatureDomainPrefix(d) ==
    IF d.kind = "buffer"
    THEN IF Len(d.buf) # 32 THEN DomainError("invalid signature domain hash")
         ELSE IF d.buf = SIGNATURE_DOMAIN_EMPTY_HASH THEN DomainPrefix(Undefined)
         ELSE DomainPrefix(Some(d.buf))
    ELSE CASE d.type = "empty" -> DomainPrefix(Undefined)
           [] d.type = "l2" ->
                IF writeInt32LE(d.globalId).threw THEN DomainError("RangeError")
                ELSE DomainPrefix(Some(sha256_sync(
                         writeInt32LE(Wide(TL_ID_SIGNATURE_DOMAIN_L2)).bytes
                         \o writeInt32LE(d.globalId).bytes)))
           [] OTHER -> DomainError("unknown signature domain type")

\* setSignatureDomain(crypto, domain), domain {} for null or undefined: the
\* getters it defines, as setSignatureId; none are defined when the prefix throws
setSignatureDomain(d) ==
    LET got == IF d # Undefined THEN signatureDomainPrefix(The(d))
               ELSE DomainPrefix(Undefined)
    IN  [threw |-> got.threw, error |-> got.error,
         fns |-> [sign |-> got.prefix, signVerify |-> got.prefix]]

\* cryptoWithSignatureDomain(domain): a copy of the library with the getters set
cryptoWithSignatureDomain(d) == setSignatureDomain(d)

\* a buffer of the given length that differs from the empty-domain hash
OtherHash(len) == [i \in 1..len |-> (SIGNATURE_DOMAIN_EMPTY_HASH[((i - 1) % 32) + 1] + 1) % 256]

DomainGlobalIds ==
    {Wide(0), Wide(123), Wide(-6001), Wide(2147483647), Wide(-2147483647),
     [hi |-> -32768, lo |-> 0], [hi |-> 32768, lo |-> 0], [hi |-> 65535, lo |-> 59535]}

Domains ==
    {BufferDomain(SIGNATURE_DOMAIN_EMPTY_HASH)}
    \cup {BufferDomain(OtherHash(len)) : len \in {0, 4, 31, 32, 33, 64}}
    \cup {BufferDomain(SubSeq(SIGNATURE_DOMAIN_EMPTY_HASH, 1, 31)),
          BufferDomain(SIGNATURE_DOMAIN_EMPTY_HASH \o <<0>>)}
    \cup {ObjectDomain("empty", Wide(0)), ObjectDomain("l3", Wide(0))}
    \cup {ObjectDomain("l2", g) : g \in DomainGlobalIds}

NoDomainCall ==
    [op |-> "", arg |-> Undefined, threw |-> FALSE, error |-> "",
     prefix |-> Undefined, crypto |-> Undefined, signature |-> Undefined]

SignatureDomainPrefix ==
    /\ \E d \in Domains :
          LET got == signatureDomainPrefix(d)
          IN  domain' = [NoDomainCall EXCEPT
                           !.op = "signatureDomainPrefix", !.arg = Some(d),
                           !.threw = got.threw, !.error = got.error,
                           !.prefix = got.prefix]
    /\ UNCHANGED <<globalIdCall, cryptoObjects, wasm, executorVars, storageVars, signVars>>

CryptoWithSignatureDomain ==
    /\ \E d \in {Undefined} \cup {Some(x) : x \in Domains} :
          LET got == cryptoWithSignatureDomain(d)
          IN  domain' = [NoDomainCall EXCEPT
                           !.op = "cryptoWithSignatureDomain", !.arg = d,
                           !.threw = got.threw, !.error = got.error,
                           !.prefix = got.fns.sign,
                           !.crypto = IF got.threw THEN Undefined ELSE Some(got.fns)]
    /\ UNCHANGED <<globalIdCall, cryptoObjects, wasm, executorVars, storageVars, signVars>>

\* crypto.sign(data, secretKey) on the object cryptoWithSignatureDomain returned
DomainSign ==
    /\ domain.crypto # Undefined
    /\ \E data \in Datas, kp \in KeyPairs :
          domain' = [domain EXCEPT !.signature =
              Some([data |-> data, secretKey |-> kp.secretKey,
                    signature |-> cryptoSign(The(domain.crypto), data, kp.secretKey),
                    check |-> Undefined])]
    /\ UNCHANGED <<globalIdCall, cryptoObjects, wasm, executorVars, storageVars, signVars>>

\* crypto.signVerify(data, signature, publicKey) on that object, of its signature
DomainSignVerify ==
    /\ domain.crypto # Undefined /\ domain.signature # Undefined
    /\ \E data \in Datas, kp \in KeyPairs :
          domain' = [domain EXCEPT !.signature =
              Some([The(domain.signature) EXCEPT !.check =
                  Some([data |-> data, publicKey |-> kp.publicKey,
                        verified |-> cryptoSignVerify(The(domain.crypto), data,
                                         The(domain.signature).signature,
                                         kp.publicKey)])])]
    /\ UNCHANGED <<globalIdCall, cryptoObjects, wasm, executorVars, storageVars, signVars>>

NextDomain ==
    \/ SignatureDomainPrefix
    \/ CryptoWithSignatureDomain
    \/ DomainSign
    \/ DomainSignVerify

-----------------------------------------------------------------------------
(* The global id of a config (src/src/utils/sign.ts, lines 82-102, and     *)
(* src/src/utils/globalIdCall.ts).  A config root is the dictionary it holds:  *)
(* a function from parameter indices to cells; a cell is the sequence of   *)
(* the bytes of its data bits.                                             *)

GLOBAL_ID_IDX == 19

\* beginCell().storeInt(w, 32).endCell(): big-endian two's complement
storeInt32(w) == <<(w.hi \div 256) % 256, w.hi % 256, w.lo \div 256, w.lo % 256>>

\* slice.loadInt(32): the signed reading of the first four bytes
loadInt32(cell) ==
    [hi |-> IF cell[1] >= 128 THEN cell[1] * 256 + cell[2] - 65536
            ELSE cell[1] * 256 + cell[2],
     lo |-> cell[3] * 256 + cell[4]]

\* slice.loadUint(32): the unsigned reading of the first four bytes
loadUint32(cell) == [hi |-> cell[1] * 256 + cell[2], lo |-> cell[3] * 256 + cell[4]]

\* getGlobalId(configRoot): value is {} for undefined; loadUint throws on a
\* cell with fewer than 32 bits
getGlobalId(configRoot) ==
    IF GLOBAL_ID_IDX \notin DOMAIN configRoot
    THEN [threw |-> FALSE, value |-> Undefined]
    ELSE IF Len(configRoot[GLOBAL_ID_IDX]) < 4
    THEN [threw |-> TRUE, value |-> Undefined]
    ELSE [threw |-> FALSE, value |-> Some(loadUint32(configRoot[GLOBAL_ID_IDX]))]

\* the number a signed 32-bit value held in halves stands for
ToNumber(w) == w.hi * 65536 + w.lo

\* setSignatureId(crypto, globalId) for a globalId held in halves: writeInt32BE
\* throws a RangeError for a value outside the signed 32-bit range
setSignatureIdWide(w) ==
    IF w = Undefined THEN [threw |-> FALSE, fns |-> Some(setSignatureId(Undefined))]
    ELSE IF ~IsInt32(The(w)) THEN [threw |-> TRUE, fns |-> Undefined]
    ELSE [threw |-> FALSE, fns |-> Some(setSignatureId(Some(ToNumber(The(w)))))]

\* global ids a network stores at parameter 19: signed 32-bit integers
StoredGlobalIds ==
    {Wide(0), Wide(123), Wide(2000), Wide(-6001), Wide(-1), Wide(2147483647),
     Wide(-2147483647), [hi |-> -32768, lo |-> 0]}

\* a cell of parameter 8, present in some configs
OtherParam == <<196, 0, 0, 0, 1>>

ConfigRoots ==
    {[k \in {8} |-> OtherParam], EmptyObj}
    \cup {[k \in {19} |-> storeInt32(g)] : g \in StoredGlobalIds}
    \cup {[k \in {8, 19} |-> IF k = 8 THEN OtherParam ELSE storeInt32(g)] :
              g \in StoredGlobalIds}
    \cup {[k \in {19} |-> <<196>>]}

NoGlobalIdCall ==
    [made |-> FALSE, configRoot |-> EmptyObj, stored |-> Undefined, threw |-> FALSE, value |-> Undefined,
     set |-> FALSE, setThrew |-> FALSE, fns |-> Undefined, signature |-> Undefined]

\* the integer stored at parameter 19 of a config, {} when there is none
StoredAt19(configRoot) ==
    IF GLOBAL_ID_IDX \in DOMAIN configRoot /\ Len(configRoot[GLOBAL_ID_IDX]) >= 4
    THEN Some(loadInt32(configRoot[GLOBAL_ID_IDX]))
    ELSE Undefined

GetGlobalId ==
    /\ \E configRoot \in ConfigRoots :
          LET got == getGlobalId(configRoot)
          IN  globalIdCall' = [NoGlobalIdCall EXCEPT
                             !.made = TRUE, !.configRoot = configRoot,
                             !.stored = StoredAt19(configRoot),
                             !.threw = got.threw, !.value = got.value]
    /\ UNCHANGED <<domain, cryptoObjects, wasm, executorVars, storageVars, signVars>>

\* setSignatureId(cryptoWithSignatureId(undefined), getGlobalId(config))
SetSignatureIdOfConfig ==
    /\ globalIdCall.made /\ ~globalIdCall.threw /\ ~globalIdCall.set
    /\ LET got == setSignatureIdWide(globalIdCall.value)
       IN  globalIdCall' = [globalIdCall EXCEPT
                          !.set = TRUE, !.setThrew = got.threw,
                          !.fns = IF got.threw
                                  THEN Some(cryptoWithSignatureId(Undefined))
                                  ELSE got.fns]
    /\ UNCHANGED <<domain, cryptoObjects, wasm, executorVars, storageVars, signVars>>

\* crypto.sign(data, secretKey) on that object
GlobalIdSign ==
    /\ globalIdCall.fns # Undefined
    /\ \E data \in Datas, kp \in KeyPairs :
          globalIdCall' = [globalIdCall EXCEPT !.signature =
              Some([data |-> data, secretKey |-> kp.secretKey,
                    signature |-> cryptoSign(The(globalIdCall.fns), data, kp.secretKey)])]
    /\ UNCHANGED <<domain, cryptoObjects, wasm, executorVars, storageVars, signVars>>

NextGlobalId == GetGlobalId \/ SetSignatureIdOfConfig \/ GlobalIdSign

-----------------------------------------------------------------------------
(* Crypto objects as objects (src/src/utils/sign.ts, lines 1-53): a heap   *)
(* from references to objects, an object being the prefixes of its sign    *)
(* and signVerify.  originalTonCrypto is the module's copy of the library; *)
(* each holder keeps the reference cryptoWithSignatureId returned to it.   *)

Holders == {"holder1", "holder2"}
Library == "originalTonCrypto"
Refs == {Library} \cup Holders

\* the library's own sign and signVerify
PlainFns == [sign |-> Undefined, signVerify |-> Undefined]

\* setSignatureId(crypto, globalId) on the object at ref
setSignatureIdAt(heap, ref, g) == [heap EXCEPT ![ref] = Some(setSignatureId(g))]

\* cryptoWithSignatureId setting the id on originalTonCrypto itself
cryptoWithSignatureIdAt_NoCopy(heap, fresh, g) ==
    [heap |-> setSignatureIdAt(heap, Library, g), ref |-> Library]

\* cryptoWithSignatureId(globalId): result = {...originalTonCrypto} is a new
\* object at the reference fresh, then setSignatureId(result, globalId)
cryptoWithSignatureIdAt(heap, fresh, g) ==
    LET copied == [heap EXCEPT ![fresh] = heap[Library]]
    IN  [heap |-> setSignatureIdAt(copied, fresh, g), ref |-> fresh]

\* ids set on the objects
ObjectIds == {Undefined, Some(123), Some(-6001)}

NoCryptoObjects ==
    [heap |-> [r \in Refs |-> IF r = Library THEN Some(PlainFns) ELSE Undefined],
     held |-> [h \in Holders |-> ""],
     ids |-> [h \in Holders |-> Undefined],
     acted |-> "",
     signature |-> Undefined]

\* holder h calls cryptoWithSignatureId(g) and keeps the result
ObjectCreate(h) ==
    /\ \E g \in ObjectIds :
          LET got == cryptoWithSignatureIdAt(cryptoObjects.heap, h, g)
          IN  cryptoObjects' = [cryptoObjects EXCEPT
                                  !.heap = got.heap, !.held[h] = got.ref,
                                  !.ids[h] = g, !.acted = h,
                                  !.signature = Undefined]
    /\ UNCHANGED <<domain, globalIdCall, wasm, executorVars, storageVars, signVars>>

\* holder h calls setSignatureId(its object, g)
ObjectSetSignatureId(h) ==
    /\ cryptoObjects.held[h] # ""
    /\ \E g \in ObjectIds :
          cryptoObjects' = [cryptoObjects EXCEPT
              !.heap = setSignatureIdAt(cryptoObjects.heap, cryptoObjects.held[h], g),
              !.ids[h] = g, !.acted = h, !.signature = Undefined]
    /\ UNCHANGED <<domain, globalIdCall, wasm, executorVars, storageVars, signVars>>

\* holder h calls sign(data, secretKey) of its object
ObjectSign(h) ==
    /\ cryptoObjects.held[h] # ""
    /\ \E data \in Datas, kp \in KeyPairs :
          cryptoObjects' = [cryptoObjects EXCEPT
              !.acted = h,
              !.signature = Some([holder |-> h, data |-> data,
                  secretKey |-> kp.secretKey,
                  signature |-> cryptoSign(
                      The(cryptoObjects.heap[cryptoObjects.held[h]]),
                      data, kp.secretKey)])]
    /\ UNCHANGED <<domain, globalIdCall, wasm, executorVars, storageVars, signVars>>

NextCryptoObjects ==
    \E h \in Holders : ObjectCreate(h) \/ ObjectSetSignatureId(h) \/ ObjectSign(h)

-----------------------------------------------------------------------------
(* Loading the emulator module (src/src/index.ts, lines 4-20, and          *)
(* TychoExecutor.create of the build that awaits it, Executor.ts lines     *)
(* 280-284).  A promise is "pending", "fulfilled" or "rejected".           *)

\* init attempts counted
MaxInits == 2
Creators == {"create1", "create2", "create3", "create4"}

\* module scope after import: nothing started, the promise pending
WasmNotLoaded ==
    [wasmInitializationStarted |-> FALSE,
     inits |-> 0,                     \* init(initInput) calls made
     init |-> "none",                 \* the promise init returned
     initializationPromise |-> "pending",
     creators |-> [c \in Creators |-> [pc |-> "idle", promise |-> ""]]]

\* emulatorWasmLoaded starting init on every call
emulatorWasmLoaded_NoLatch(w) ==
    [w EXCEPT !.wasmInitializationStarted = TRUE,
              !.inits = IF @ < MaxInits THEN @ + 1 ELSE @,
              !.init = "pending"]

\* emulatorWasmLoaded(initInput): the module state after the call; the call
\* returns initializationPromise
emulatorWasmLoaded(w) ==
    IF ~w.wasmInitializationStarted
    THEN [w EXCEPT !.wasmInitializationStarted = TRUE,
                   !.inits = IF @ < MaxInits THEN @ + 1 ELSE @,
                   !.init = "pending"]
    ELSE w

\* TychoExecutor.create() up to its await
Create(c) ==
    /\ wasm.creators[c].pc # "awaiting"
    /\ wasm' = [emulatorWasmLoaded(wasm) EXCEPT
                  !.creators[c] = [pc |-> "awaiting",
                                   promise |-> "initializationPromise"]]
    /\ UNCHANGED <<domain, globalIdCall, cryptoObjects, executorVars, storageVars,
                   signVars>>

\* the promise init returned settles
InitSettles ==
    /\ wasm.init = "pending"
    /\ \E outcome \in {"fulfilled", "rejected"} : wasm' = [wasm EXCEPT !.init = outcome]
    /\ UNCHANGED <<domain, globalIdCall, cryptoObjects, executorVars, storageVars,
                   signVars>>

\* .then(notifyWasmInitialized.resolve).catch(notifyWasmInitialized.reject);
\* settling a promise that is settled already changes nothing
Notify ==
    /\ wasm.init \in {"fulfilled", "rejected"}
    /\ wasm.initializationPromise = "pending"
    /\ wasm' = [wasm EXCEPT !.initializationPromise = wasm.init]
    /\ UNCHANGED <<domain, globalIdCall, cryptoObjects, executorVars, storageVars,
                   signVars>>

\* TychoExecutor.create() from its await on: the executor is made, or the
\* rejection leaves create
CreateResume(c) ==
    /\ wasm.creators[c].pc = "awaiting"
    /\ wasm.initializationPromise # "pending"
    /\ wasm' = [wasm EXCEPT !.creators[c].pc =
                  IF wasm.initializationPromise = "fulfilled" THEN "created"
                  ELSE "failed"]
    /\ UNCHANGED <<domain, globalIdCall, cryptoObjects, executorVars, storageVars,
                   signVars>>

NextWasm ==
    \/ \E c \in Creators : Create(c) \/ CreateResume(c)
    \/ InitSettles
    \/ Notify

\* no call of src/utils made yet, the module just imported
UtilsIdle ==
    /\ domain = NoDomainCall
    /\ globalIdCall = NoGlobalIdCall
    /\ cryptoObjects = NoCryptoObjects
    /\ wasm = WasmNotLoaded

-----------------------------------------------------------------------------
(* The state machine: one action per facade operation                      *)

NoCall ==
    [executor |-> "", op |-> "", args |-> EmptyObj, config |-> "", verbosity |-> 0,
     trace |-> <<>>,
     raw |-> NoRaw, threw |-> FALSE, error |-> "", result |-> Undefined]

FreshCalls ==
    [phase |-> "fresh", key |-> <<>>, creates |-> 0, createsThrown |-> 0,
     destroys |-> 0]
MixedCalls ==
    [phase |-> "mixed", key |-> <<>>, creates |-> 0, createsThrown |-> 0,
     destroys |-> 0]

\* arguments of runTransaction and runTickTock (which is read by runTickTock,
\* message by runTransaction); an optional one is {} when null or undefined
Seeds == {<<0, 255>>}
CodecArgs ==
    [config : {"cfgA"}, verbosity : {"full"},
     libs : {Undefined, Some("libs.cell")},
     shardAccount : {"account.boc"}, message : {"message.cell"},
     which : {"tick", "tock"},
     now : {1700000000}, lt : {0, 2147483647},
     randomSeed : {Undefined} \cup {Some(b) : b \in Seeds},
     ignoreChksig : {FALSE},
     debugEnabled : {Undefined, Some(TRUE)}]
DefaultArgs(config, verbosity) ==
    [config |-> config, verbosity |-> verbosity, libs |-> Undefined,
     shardAccount |-> "account.boc", message |-> "message.cell", which |-> "tock",
     now |-> 1700000000, lt |-> 1000000000, randomSeed |-> Undefined,
     ignoreChksig |-> FALSE, debugEnabled |-> Some(FALSE)]
Args == {DefaultArgs(c, v) : c \in Configs, v \in Verbosities}

\* arguments of runGetMethod
ExtraCurrencies == {EmptyObj, (1 :> 5), (1 :> 0) @@ (100 :> 1000000000)}
CodecGetMethodArgs ==
    [config : {"cfgA"}, verbosity : {"full"},
     code : {"code.cell"}, data : {"data.cell"}, address : {"addr1"},
     methodId : {0}, stack : {"stack.tuple"}, unixTime : {1700000000},
     libs : {Undefined, Some("libs.cell")},
     balance : {0, 1000000000},
     gasLimit : {2147483647},
     randomSeed : Seeds,
     debugEnabled : {Undefined, Some(FALSE)},
     extraCurrency : {Undefined} \cup {Some(ec) : ec \in ExtraCurrencies}]
DefaultGetMethodArgs(config, verbosity) ==
    [config |-> config, verbosity |-> verbosity, code |-> "code.cell",
     data |-> "data.cell", address |-> "addr1", methodId |-> 0,
     stack |-> "stack.tuple", unixTime |-> 1700000000, libs |-> Undefined,
     balance |-> 1000000000, gasLimit |-> 1000000, randomSeed |-> <<0, 255>>,
     debugEnabled |-> Some(FALSE), extraCurrency |-> Undefined]
GetMethodArgs == {DefaultGetMethodArgs(c, v) : c \in Configs, v \in Verbosities}

\* the facade calls the host has made and not yet seen settle
Calls == {"call1", "call2"}
IdleCall ==
    [pc |-> "idle", executor |-> "", args |-> DefaultArgs("", "short"), ptr |-> 0,
     destroyed |-> {}, clobbered |-> FALSE, threw |-> FALSE]

\* new TychoExecutor(emulatorWasm, params): no emulator yet, nothing allocated
Init ==
    /\ emulator = [e \in Executors |-> Undefined]
    /\ handles = [p \in Ptrs |-> {}]
    /\ executorParams = [e \in Executors |-> EmptyObj]
    /\ reuse = [e \in Executors |-> FreshCalls]
    /\ last = NoCall
    /\ calls = [c \in Calls |-> IdleCall]
    /\ stack = ""
    /\ contracts = EmptyObj
    /\ lookups = [l \in Lookups |-> IdleLookup]
    /\ fetched = [a \in Addresses |-> NothingFetched]
    /\ crypto = Undefined
    /\ signed = NoSignature
    /\ UtilsIdle

Begin(e) ==
    [emulator |-> emulator[e], handles |-> handles,
     executorParams |-> executorParams[e], trace |-> <<>>, raw |-> NoRaw,
     threw |-> FALSE, error |-> "", result |-> Undefined]

Count(trace, fn, threwOnly) ==
    Cardinality({i \in 1..Len(trace) :
                    trace[i].fn = fn /\ (threwOnly => trace[i].threw)})

Key(args) == <<args.config, verbosityToNum(args.verbosity)>>

Record(e, op, args, r) ==
    /\ emulator' = [emulator EXCEPT ![e] = r.emulator]
    /\ handles' = r.handles
    /\ UNCHANGED <<executorParams, calls, stack, storageVars, signVars, utilsVars>>
    /\ last' = [executor |-> e, op |-> op, args |-> args, config |-> args.config,
                verbosity |-> verbosityToNum(args.verbosity), trace |-> r.trace,
                raw |-> r.raw, threw |-> r.threw, error |-> r.error,
                result |-> r.result]

\* the counts of e's calls for as long as all of them carry the same key
Counted(e, args, r) ==
    /\ reuse' = [reuse EXCEPT ![e] =
         IF @.phase = "mixed" \/ (@.phase = "same" /\ @.key # Key(args))
         THEN MixedCalls
         ELSE [phase |-> "same", key |-> Key(args),
               creates |-> @.creates + Count(r.trace, "create_emulator", FALSE),
               createsThrown |->
                   @.createsThrown + Count(r.trace, "create_emulator", TRUE),
               destroys |-> @.destroys + Count(r.trace, "destroy_emulator", FALSE)]]
    /\ reuse'[e].creates <= MaxCreates

\* The engine's outcomes are drawn only for the native calls the handler makes.
DefaultDestroy == [threw |-> FALSE, freed |-> TRUE]
DefaultCreate == [threw |-> TRUE, ptr |-> 0]

Pointer(st, args, od, oc) ==
    getEmulatorPointer(st, args.config, verbosityToNum(args.verbosity), od, oc)

DestroyChoices(st, args) ==
    IF Count(Pointer(st, args, DefaultDestroy, DefaultCreate).trace,
             "destroy_emulator", FALSE) > 0
    THEN DestroyOutcomes ELSE {DefaultDestroy}

CreateChoices(st, args, od) ==
    IF Count(Pointer(st, args, od, DefaultCreate).trace, "create_emulator", FALSE) > 0
    THEN CreateOutcomes ELSE {DefaultCreate}

EmulateChoices(st, args, od, oc, outcomes) ==
    IF Pointer(st, args, od, oc).threw THEN {Thrown} ELSE outcomes


RunTransaction(e, argSet, outcomes) ==
    \E args \in argSet :
      \E od \in DestroyChoices(Begin(e), args) :
        \E oc \in CreateChoices(Begin(e), args, od) :
          \E oe \in EmulateChoices(Begin(e), args, od, oc, outcomes) :
            LET r == runTransaction(Begin(e), args, od, oc, oe)
            IN  Record(e, "runTransaction", args, r) /\ Counted(e, args, r)

RunTickTock(e, argSet, outcomes) ==
    \E args \in argSet :
      \E od \in DestroyChoices(Begin(e), args) :
        \E oc \in CreateChoices(Begin(e), args, od) :
          \E oe \in EmulateChoices(Begin(e), args, od, oc, outcomes) :
            LET r == runTickTock(Begin(e), args, od, oc, oe)
            IN  Record(e, "runTickTock", args, r) /\ Counted(e, args, r)

RunGetMethod(e, argSet, outcomes) ==
    \E args \in argSet, og \in outcomes :
        LET r == runGetMethod(Begin(e), args, og)
        IN  Record(e, "runGetMethod", args, r) /\ UNCHANGED reuse

NoArgs == [config |-> "", verbosity |-> "short"]

GetVersion(e, outcomes) ==
    \E ov \in outcomes :
        LET r == getVersion(Begin(e), ov)
        IN  Record(e, "getVersion", NoArgs, r) /\ UNCHANGED reuse

\* Handle lifecycle: every key, every outcome of create and destroy, one
\* response of each kind.
Next ==
    \E e \in Executors :
        \/ RunTransaction(e, Args, FewEmulateOutcomes)
        \/ RunTickTock(e, Args, FewEmulateOutcomes)
        \/ RunGetMethod(e, GetMethodArgs, FewGetMethodOutcomes)
        \/ GetVersion(e, {Thrown, Answer(VersionInfo)})

Spec == Init /\ [][Next]_vars

\* Result normalisation: every response, calls that share one key.
NormalizeArgs == {a \in Args : a.config = "cfgA" /\ a.verbosity = "full"}
NormalizeGetMethodArgs ==
    {a \in GetMethodArgs : a.config = "cfgA" /\ a.verbosity = "full"}

NextNormalize ==
    \E e \in Executors :
        \/ RunTransaction(e, NormalizeArgs, EmulateOutcomes)
        \/ RunTickTock(e, NormalizeArgs, EmulateOutcomes)
        \/ RunGetMethod(e, NormalizeGetMethodArgs, GetMethodOutcomes)
        \/ GetVersion(e, VersionOutcomes)

SpecNormalize == Init /\ [][NextNormalize]_vars

-----------------------------------------------------------------------------
(* Calls in flight.  runTransaction is an async function: its body runs on *)
(* the call stack from the call until its first await, and while it is on  *)
(* the stack no other call of the host runs.  The steps of the body are    *)
(* getEmulatorPointer (line 154) and then runCommon (line 153); AwaitPoints *)
(* are the places of the body where it awaits, so gives up the stack.      *)

\* runTransaction with an await between getEmulatorPointer and runCommon
AwaitPoints_BeforeEmulate == {"pointer"}

\* the body of runTransaction contains no await
AwaitPoints == {}

InFlight(c) == calls[c].pc \in {"entered", "pointer"}

\* the two calls of the host carry differing configurations
CallArgs(c) == {a \in Args : a.config = IF c = "call1" THEN "cfgA" ELSE "cfgB"}

\* the host calls e.runTransaction(args): the body starts running at once
Invoke(e, c) ==
    /\ stack = ""
    /\ calls[c].pc \in {"idle", "done"}
    /\ \E args \in CallArgs(c) :
          calls' = [calls EXCEPT ![c] =
                       [IdleCall EXCEPT !.pc = "entered", !.executor = e,
                                        !.args = args]]
    /\ stack' = c
    /\ UNCHANGED <<emulator, handles, executorParams, reuse, last, storageVars, signVars, utilsVars>>

\* this.getEmulatorPointer(args.config, verbosityToNum[args.verbosity])
ObtainPointer(c) ==
    /\ stack = c
    /\ calls[c].pc = "entered"
    /\ LET e == calls[c].executor
           args == calls[c].args
       IN  \E od \in DestroyChoices(Begin(e), args) :
             \E oc \in CreateChoices(Begin(e), args, od) :
               LET got == Pointer(Begin(e), args, od, oc)
                   freed == Live(handles) \ Live(got.handles)
               IN  /\ emulator' = [emulator EXCEPT ![e] = got.emulator]
                   /\ handles' = got.handles
                   /\ calls' = [d \in Calls |->
                         IF d = c
                         THEN [calls[c] EXCEPT
                                 !.pc = IF got.threw THEN "done" ELSE "pointer",
                                 !.threw = got.threw,
                                 !.destroyed = freed,
                                 !.ptr = IF got.threw THEN 0
                                         ELSE The(got.emulator).ptr]
                         ELSE IF calls[d].pc = "pointer" /\ calls[d].ptr \in freed
                         THEN [calls[d] EXCEPT !.clobbered = TRUE]
                         ELSE calls[d]]
                   /\ stack' = IF got.threw \/ "pointer" \in AwaitPoints
                               THEN "" ELSE c
    /\ UNCHANGED <<executorParams, reuse, last, storageVars, signVars, utilsVars>>

\* this.runCommon(ptr, libs, shardAccount, message, params): the body ends
Emulate(c) ==
    /\ calls[c].pc = "pointer"
    /\ stack = c \/ (stack = "" /\ "pointer" \in AwaitPoints)
    /\ LET e == calls[c].executor
           args == calls[c].args
       IN  \E oe \in FewEmulateOutcomes :
             LET r == runCommon(Begin(e), calls[c].ptr, LibsBoc(args),
                          CellToBase64(args.message),
                          JSONStringify(runCommonArgsToInternalParams(args,
                              executorParams[e])), oe)
             IN  /\ emulator' = [emulator EXCEPT ![e] = r.emulator]
                 /\ handles' = r.handles
                 /\ calls' = [calls EXCEPT ![c].pc = "done", ![c].threw = r.threw]
    /\ stack' = ""
    /\ UNCHANGED <<executorParams, reuse, last, storageVars, signVars, utilsVars>>

NextInFlight ==
    \E c \in Calls :
        \/ \E e \in Executors : Invoke(e, c)
        \/ ObtainPointer(c)
        \/ Emulate(c)

\* The JavaScript engine runs a body on the stack to its end, and the host goes
\* on making both calls.
SpecInFlight ==
    /\ Init /\ [][NextInFlight]_vars
    /\ \A c \in Calls :
          /\ WF_vars(ObtainPointer(c)) /\ WF_vars(Emulate(c))
          /\ SF_vars(\E e \in Executors : Invoke(e, c))

-----------------------------------------------------------------------------
(* Two executors.  Both are built around the one imported native module,   *)
(* so the engine's handles live in one address space.                      *)

TwoExecutors == {"ex1", "ex2"}

\* TychoExecutor.create() twice
InitIsolation ==
    /\ emulator = [e \in TwoExecutors |-> Undefined]
    /\ handles = [p \in Ptrs |-> {}]
    /\ executorParams = [e \in TwoExecutors |-> EmptyObj]
    /\ reuse = [e \in TwoExecutors |-> FreshCalls]
    /\ last = NoCall
    /\ calls = [c \in Calls |-> IdleCall]
    /\ stack = ""
    /\ contracts = EmptyObj
    /\ lookups = [l \in Lookups |-> IdleLookup]
    /\ fetched = [a \in Addresses |-> NothingFetched]
    /\ crypto = Undefined
    /\ signed = NoSignature
    /\ UtilsIdle

IsolationArgs == {a \in Args : a.verbosity = "short"}
IsolationGetMethodArgs ==
    {a \in GetMethodArgs : a.config = "cfgA" /\ a.verbosity = "short"}

NextIsolation ==
    \E e \in TwoExecutors :
        \/ RunTransaction(e, IsolationArgs, {Answer(Ok(VmSuccess))})
        \/ RunTickTock(e, IsolationArgs, {Answer(Ok(VmFailure))})
        \/ RunGetMethod(e, IsolationGetMethodArgs, {Answer(Ok(GetMethodSuccess))})
        \/ GetVersion(e, {Answer(VersionInfo)})

SpecIsolation == InitIsolation /\ [][NextIsolation]_vars

\* Remote storage: two getContract calls, every answer of the remote
SpecStorage == Init /\ [][NextStorage]_vars

\* Signature ids: every global id, two messages, two key pairs
SpecSign == Init /\ [][NextSign]_vars
SpecDomain == Init /\ [][NextDomain]_vars
SpecGlobalId == Init /\ [][NextGlobalId]_vars
SpecWasm == Init /\ [][NextWasm]_vars
SpecCryptoObjects == Init /\ [][NextCryptoObjects]_vars

\* Wire codec: every combination of arguments and of executor parameters, one
\* key and one response.
ExecutorParamsChoices ==
    {EmptyObj,
     [disableDeleteFrozenAccounts |-> FALSE, chargeActionFeesOnFail |-> TRUE]}

\* TychoExecutor.create(params)
InitCodec ==
    /\ emulator = [e \in Executors |-> Undefined]
    /\ handles = [p \in Ptrs |-> {}]
    /\ executorParams \in [Executors -> ExecutorParamsChoices]
    /\ reuse = [e \in Executors |-> FreshCalls]
    /\ last = NoCall
    /\ calls = [c \in Calls |-> IdleCall]
    /\ stack = ""
    /\ contracts = EmptyObj
    /\ lookups = [l \in Lookups |-> IdleLookup]
    /\ fetched = [a \in Addresses |-> NothingFetched]
    /\ crypto = Undefined
    /\ signed = NoSignature
    /\ UtilsIdle

NextCodec ==
    \E e \in Executors :
        \/ RunTransaction(e, CodecArgs, {Answer(Ok(VmSuccess))})
        \/ RunTickTock(e, CodecArgs, {Answer(Ok(VmSuccess))})
        \/ RunGetMethod(e, CodecGetMethodArgs, {Answer(Ok(GetMethodSuccess))})

SpecCodec == InitCodec /\ [][NextCodec]_vars

-----------------------------------------------------------------------------
(* What the most recent facade call did                                    *)

Emulation == last.op \in {"runTransaction", "runTickTock"}
Trace == last.trace
CallsOf(fn) == {i \in 1..Len(Trace) : Trace[i].fn = fn}
LastKey == [config |-> last.config, verbosity |-> last.verbosity]

-----------------------------------------------------------------------------
(* Engine handle cache                                                     *)

\* C1 as stated: while all calls of an executor carry the same (config,
\* verbosity), create_emulator has been called exactly once and destroy_emulator
\* never.  It fails when create_emulator throws: nothing is cached, and the next
\* call calls create_emulator again.
C1_CreateCalledOnce ==
    \A e \in Executors :
        reuse[e].phase = "same" => reuse[e].creates = 1 /\ reuse[e].destroys = 0

\* C1, amended: while all calls of an executor carry the same (config,
\* verbosity), destroy_emulator is never called and create_emulator returns a
\* handle at most once, which is then the cached one; if no create_emulator call
\* threw, create_emulator has been called exactly once.
C1_HandleReuse ==
    \A e \in Executors :
        reuse[e].phase = "same" =>
            /\ reuse[e].destroys = 0
            /\ reuse[e].creates - reuse[e].createsThrown <= 1
            /\ (emulator[e] = Undefined <=> reuse[e].creates = reuse[e].createsThrown)
            /\ (reuse[e].createsThrown = 0 => reuse[e].creates = 1)

\* a call reused the handle an earlier call with the same key had created
C1_Witness ==
    /\ Emulation /\ ~last.threw
    /\ reuse[last.executor].phase = "same"
    /\ reuse[last.executor].creates = 1
    /\ CallsOf("create_emulator") = {}
    /\ CallsOf("emulate_with_emulator") # {}

\* C2: a runTransaction/runTickTock call whose key differs from the cached key
\* calls destroy_emulator once, on the cached handle, then create_emulator once,
\* with the call's config and verbosity, and only then emulate_with_emulator,
\* on the handle just created; a native call that throws ends the sequence.
KeyChanged(e) ==
    /\ emulator[e] # Undefined
    /\ The(emulator[e]).config # last'.config
       \/ The(emulator[e]).verbosity # last'.verbosity

ReplacementSequence(e) ==
    LET t == last'.trace
    IN  /\ Len(t) \in 1..3
        /\ t[1].fn = "destroy_emulator" /\ t[1].ptr = The(emulator[e]).ptr
        /\ Len(t) >= 2 =>
              /\ ~t[1].threw
              /\ t[2].fn = "create_emulator"
              /\ t[2].config = last'.config /\ t[2].verbosity = last'.verbosity
        /\ Len(t) = 3 =>
              /\ ~t[2].threw
              /\ t[3].fn = "emulate_with_emulator" /\ t[3].ptr = t[2].ptr
        /\ ~last'.threw => Len(t) = 3

C2_HandleReplacement ==
    [][\A e \in Executors :
          /\ last'.executor = e
          /\ last'.op \in {"runTransaction", "runTickTock"}
          /\ KeyChanged(e)
          => ReplacementSequence(e)]_vars

C2_Witness ==
    /\ Emulation /\ ~last.threw /\ Len(Trace) = 3
    /\ Trace[1].fn = "destroy_emulator"
    /\ Trace[2].fn = "create_emulator"
    /\ Trace[3].fn = "emulate_with_emulator"

\* C3: at most one native handle is live at any time, and create_emulator is
\* only ever called when no handle is live (the prior one has been destroyed).
C3_AtMostOneLiveHandle ==
    /\ Cardinality(Live(handles)) <= 1
    /\ \A i \in CallsOf("create_emulator") : Trace[i].live = {}

\* a handle was replaced: the old one destroyed, a new one created and live
C3_Witness ==
    /\ \E i \in CallsOf("destroy_emulator") : ~Trace[i].threw /\ Trace[i].live # {}
    /\ \E i \in CallsOf("create_emulator") : ~Trace[i].threw
    /\ Cardinality(Live(handles)) = 1

\* C4: the handle emulate_with_emulator receives is a handle of the engine,
\* created with the config and the verbosity of the call that passes it.  It
\* fails after a create_emulator that threw during a replacement (C5): the
\* cache keeps the destroyed handle, and a later call with the old key passes it.
C4_NoStaleHandle ==
    Emulation =>
        \A i \in CallsOf("emulate_with_emulator") :
            handles[Trace[i].ptr] = {LastKey}

\* C5: after a call in which destroy_emulator returned and create_emulator
\* threw, the executor caches no handle.  The code leaves this.emulator as it
\* was: the destroyed handle under its old key.
C5_NoHandleAfterFailedCreate ==
    /\ Emulation
    /\ \E i \in CallsOf("destroy_emulator") : ~Trace[i].threw
    /\ \E i \in CallsOf("create_emulator") : Trace[i].threw
    => emulator[last.executor] = Undefined

\* C6 as stated: a destroy_emulator that throws is followed, in the same call,
\* by create_emulator with the call's config and verbosity.
C6_CreateAfterFailedDestroy ==
    Emulation =>
        \A i \in CallsOf("destroy_emulator") :
            Trace[i].threw =>
                \E j \in CallsOf("create_emulator") :
                    /\ j > i
                    /\ Trace[j].config = last.config
                    /\ Trace[j].verbosity = last.verbosity

\* C6, amended: a destroy_emulator that throws during a replacement fails the
\* call with that error; create_emulator and emulate_with_emulator are not
\* called, and the cached handle and key stay as they were.
C6_FailedDestroyIsFatal ==
    [][\A e \in Executors :
          /\ last'.executor = e
          /\ last'.op \in {"runTransaction", "runTickTock"}
          /\ \E i \in 1..Len(last'.trace) :
                last'.trace[i].fn = "destroy_emulator" /\ last'.trace[i].threw
          => /\ last'.threw /\ last'.error = NativeError
             /\ last'.result = Undefined
             /\ Len(last'.trace) = 1
             /\ emulator'[e] = emulator[e]]_vars

C6_Witness ==
    /\ Emulation /\ last.threw
    /\ Len(Trace) = 1 /\ Trace[1].fn = "destroy_emulator" /\ Trace[1].threw
    /\ emulator[last.executor] # Undefined

-----------------------------------------------------------------------------
(* Result normalisation                                                    *)

\* the native call answered with JSON text that parses to an object
Answered == last.raw.kind = "object"
Response == last.raw.value
ResponseOutput == The(GetObj(Response, "output"))
\* the value the facade call returned
Returned == The(last.result)

\* C7: when the native call of runGetMethod, runTransaction or runTickTock
\* answers {ok: false, message: X}, the call throws, returns no result, and the
\* error's message contains X.
C7_ProtocolFailureSurfaced ==
    /\ Answered
    /\ Get(Response, "ok") = "false"
    /\ "message" \in DOMAIN Response
    => /\ last.threw
       /\ last.result = Undefined
       /\ Contains(last.error, Response.message)

C7_Witness ==
    /\ last.op = "runGetMethod"
    /\ Answered /\ Response = Err("X1")
    /\ last.threw /\ Contains(last.error, "X1") /\ ~Contains(last.error, "boom")

\* C8: when emulate_with_emulator answers ok = true with output.success = true,
\* runTransaction/runTickTock return a result with success = true and exactly
\* the fields transaction, shardAccount, vmLog and actions, holding
\* output.transaction, output.shard_account, output.vm_log and output.actions.
C8_SuccessShape ==
    /\ Emulation /\ Answered
    /\ Get(Response, "ok") = "true"
    /\ "output" \in DOMAIN Response
    /\ Get(ResponseOutput, "success") = "true"
    => /\ ~last.threw
       /\ last.result # Undefined
       /\ DOMAIN Returned.result =
              {"success", "transaction", "shardAccount", "vmLog", "actions"}
       /\ Returned.result.success = "true"
       /\ Returned.result.transaction = Get(ResponseOutput, "transaction")
       /\ Returned.result.shardAccount = Get(ResponseOutput, "shard_account")
       /\ Returned.result.vmLog = Get(ResponseOutput, "vm_log")
       /\ Returned.result.actions = Get(ResponseOutput, "actions")

C8_Witness ==
    /\ last.op = "runTransaction" /\ Answered
    /\ Response = Ok(VmSuccess @@ [debug_log |-> "dbg1"])
    /\ last.result # Undefined
    /\ Returned.result.transaction = "tx1"
    /\ Returned.result.shardAccount = "acc1"
    /\ Returned.result.vmLog = "vmlog1"
    /\ Returned.result.actions = "acts1"

\* C9: when emulate_with_emulator answers ok = true with output.success = false,
\* the result has success = false and carries vmLog and vmExitCode (as
\* vmResults, holding output.vm_log and output.vm_exit_code) if and only if
\* output has a vm_log key; without the key vmResults is undefined and the
\* result holds no vmLog or vmExitCode at all.
C9_FailureShape ==
    /\ Emulation /\ Answered
    /\ Get(Response, "ok") = "true"
    /\ "output" \in DOMAIN Response
    /\ Get(ResponseOutput, "success") = "false"
    => /\ ~last.threw
       /\ last.result # Undefined
       /\ DOMAIN Returned.result = {"success", "error", "vmResults"}
       /\ Returned.result.success = "false"
       /\ Returned.result.vmResults # Undefined <=> "vm_log" \in DOMAIN ResponseOutput
       /\ Returned.result.vmResults # Undefined =>
              The(Returned.result.vmResults) =
                  [vmLog |-> ResponseOutput.vm_log,
                   vmExitCode |-> Get(ResponseOutput, "vm_exit_code")]

\* the output holds an exit code but no vm_log key: no VM results
C9_Witness ==
    /\ last.op = "runTickTock" /\ Answered
    /\ Get(Response, "ok") = "true" /\ "output" \in DOMAIN Response
    /\ Get(ResponseOutput, "success") = "false"
    /\ "vm_log" \notin DOMAIN ResponseOutput
    /\ "vm_exit_code" \in DOMAIN ResponseOutput
    /\ last.result # Undefined
    /\ Returned.result.vmResults = Undefined

\* C10: a response object whose ok tag is absent or is neither true nor false
\* makes the call throw.  The code tests the tag's truthiness only: ok: 1 with
\* an output is returned as a result.
C10_BadEnvelopeRejected ==
    /\ last.op \in {"runGetMethod", "runTransaction", "runTickTock"}
    /\ Answered
    /\ Get(Response, "ok") \notin {"true", "false"}
    => last.threw /\ last.result = Undefined

-----------------------------------------------------------------------------
(* The operations that use no engine handle                                *)

\* C11: a runGetMethod or getVersion call makes no create_emulator and no
\* destroy_emulator call and leaves this.emulator and the engine's handles as
\* they were, whatever its config and verbosity and whatever the cache holds.
C11_NoHandleInvolved ==
    [][last'.op \in {"runGetMethod", "getVersion"} =>
          /\ emulator' = emulator
          /\ handles' = handles
          /\ \A i \in 1..Len(last'.trace) :
                last'.trace[i].fn \in {"run_get_method", "version"}]_vars

\* runGetMethod returned under a key other than the cached one
C11_Witness ==
    /\ last.op = "runGetMethod" /\ ~last.threw
    /\ emulator[last.executor] # Undefined
    /\ <<The(emulator[last.executor]).config,
          The(emulator[last.executor]).verbosity>> # <<last.config, last.verbosity>>
    /\ Len(Trace) = 1

-----------------------------------------------------------------------------
(* Calls in flight                                                         *)

\* a call's handle was destroyed by another call after the call obtained it
\* and before its emulate_with_emulator ended
Hazard == \E c \in Calls : calls[c].clobbered

\* C12 as stated: with two calls of differing configurations being made on one
\* executor, a call's handle gets destroyed by the other call between the
\* moment the call obtained it and its emulate_with_emulator.
C12_HandleDestroyedInFlight == <>Hazard

\* C12, amended: two runTransaction/runTickTock calls on one executor are never
\* in flight together: a call goes from getEmulatorPointer to the end of
\* emulate_with_emulator without giving up the stack, so no other call destroys
\* its handle in between.
C12_NoInterleaving ==
    /\ Cardinality({c \in Calls : InFlight(c)}) <= 1
    /\ ~Hazard
    /\ \A c \in Calls : InFlight(c) => stack = c

\* the second call replaced the handle of the first, after the first had ended
C12_Witness ==
    /\ calls["call1"].pc = "done" /\ ~calls["call1"].threw
    /\ calls["call2"].pc = "done" /\ ~calls["call2"].threw
    /\ calls["call1"].ptr \in calls["call2"].destroyed

-----------------------------------------------------------------------------
(* Two executors                                                           *)

\* C13: an operation on one executor leaves the cache slot of every other
\* executor as it was, and none of its native calls creates, destroys or
\* emulates on the handle another executor caches.  It fails once an executor
\* caches a destroyed handle (C5): the engine may hand the same address to the
\* other executor, and from then on each acts on the other's handle.
C13_InstanceIsolation ==
    [][\A e \in DOMAIN emulator :
          e # last'.executor =>
              /\ emulator'[e] = emulator[e]
              /\ emulator[e] # Undefined =>
                    \A i \in 1..Len(last'.trace) :
                        last'.trace[i].fn \in {"create_emulator", "destroy_emulator",
                                               "emulate_with_emulator"}
                        => last'.trace[i].ptr # The(emulator[e]).ptr]_vars

-----------------------------------------------------------------------------
(* No retry                                                                *)

\* C14: a runTransaction or runTickTock call calls emulate_with_emulator at
\* most once, as its last native call, and a runGetMethod call calls
\* run_get_method exactly once and makes no other native call, whatever the
\* engine answers: a result, a protocol failure, text that does not parse, an
\* envelope that fits neither, or a throw.
C14_NoRetry ==
    /\ Emulation =>
          /\ Cardinality(CallsOf("emulate_with_emulator")) <= 1
          /\ \A i \in CallsOf("emulate_with_emulator") : i = Len(Trace)
          /\ CallsOf("emulate_with_emulator") = {} => last.threw
    /\ last.op = "runGetMethod" =>
          /\ Len(Trace) = 1
          /\ Trace[1].fn = "run_get_method"

\* the engine reported a protocol failure and was called once
C14_Witness ==
    /\ last.op = "runTickTock" /\ Answered
    /\ Get(Response, "ok") = "false" /\ last.threw
    /\ Cardinality(CallsOf("emulate_with_emulator")) = 1

-----------------------------------------------------------------------------
(* Wire codec                                                              *)

\* the params text of the engine call of the most recent facade call
SentCalls == CallsOf("emulate_with_emulator") \cup CallsOf("run_get_method")
SentParams == Trace[CHOOSE i \in SentCalls : TRUE].params

\* reading a JSON token back: a string token, its text, a decimal integer
IsJSONString(t) ==
    Len(t) >= 2 /\ SubSeq(t, 1, 1) = "\"" /\ SubSeq(t, Len(t), Len(t)) = "\""
Unquote(t) == SubSeq(t, 2, Len(t) - 1)
\* the token t is a JSON string holding the decimal text of n
BigIntSent(t, n) ==
    IsJSONString(t) /\ IsDecimal(Unquote(t)) /\ ParseInteger(Unquote(t)) = n

\* C15: in the params sent to the engine, lt (runTransaction, runTickTock),
\* balance, gas_limit and every value of extra_currencies (runGetMethod) are
\* JSON strings holding the decimal text of the argument: parsing the text as
\* an integer gives the argument back.  None is sent as a JSON number.
C15_BigIntsAsDecimalStrings ==
    /\ Emulation /\ SentCalls # {} =>
          /\ "lt" \in DOMAIN SentParams
          /\ BigIntSent(SentParams.lt, last.args.lt)
    /\ last.op = "runGetMethod" =>
          /\ {"balance", "gas_limit"} \subseteq DOMAIN SentParams
          /\ BigIntSent(SentParams.balance, last.args.balance)
          /\ BigIntSent(SentParams.gas_limit, last.args.gasLimit)
          /\ last.args.extraCurrency # Undefined =>
                LET ec == The(last.args.extraCurrency)
                IN  /\ "extra_currencies" \in DOMAIN SentParams
                    /\ DOMAIN SentParams.extra_currencies =
                           {IntToString(id) : id \in DOMAIN ec}
                    /\ \A id \in DOMAIN ec :
                          BigIntSent(SentParams.extra_currencies[IntToString(id)],
                                     ec[id])

\* a balance of 1000000000 and two extra currencies were sent
C15_Witness ==
    /\ last.op = "runGetMethod" /\ SentCalls # {}
    /\ last.args.balance = 1000000000
    /\ SentParams.balance = "\"1000000000\""
    /\ last.args.extraCurrency = Some((1 :> 0) @@ (100 :> 1000000000))
    /\ SentParams.extra_currencies = [a \in {"1", "100"} |->
                                         IF a = "1" THEN "\"0\""
                                         ELSE "\"1000000000\""]

\* C16: an optional input that is absent is left out of what is sent: no libs
\* argument and no rand_seed or debug_enabled key for runTransaction and
\* runTickTock, no libs, extra_currencies or debug_enabled key for runGetMethod;
\* and a key of the params is there exactly when its input is.
C16_AbsentOptionalsOmitted ==
    /\ Emulation /\ SentCalls # {} =>
          /\ last.args.libs = Undefined <=>
                Trace[CHOOSE i \in SentCalls : TRUE].libs = JsUndefined
          /\ last.args.randomSeed = Undefined <=> "rand_seed" \notin DOMAIN SentParams
          /\ last.args.debugEnabled = Undefined <=>
                "debug_enabled" \notin DOMAIN SentParams
    /\ last.op = "runGetMethod" =>
          /\ last.args.libs = Undefined <=> "libs" \notin DOMAIN SentParams
          /\ last.args.extraCurrency = Undefined <=>
                "extra_currencies" \notin DOMAIN SentParams
          /\ last.args.debugEnabled = Undefined <=>
                "debug_enabled" \notin DOMAIN SentParams
    /\ SentCalls # {} =>
          \A k \in DOMAIN SentParams :
              IF k = "extra_currencies"
              THEN DOMAIN SentParams[k] = {} =>
                       last.args.extraCurrency = Some(EmptyObj)
              ELSE SentParams[k] \notin {"null", "\"\""}

\* runGetMethod was called without libs, extra currencies and debug flag
C16_Witness ==
    /\ last.op = "runGetMethod" /\ SentCalls # {}
    /\ last.args.libs = Undefined
    /\ last.args.extraCurrency = Undefined
    /\ last.args.debugEnabled = Undefined
    /\ DOMAIN SentParams = {"code", "data", "verbosity", "address", "unixtime",
                            "balance", "rand_seed", "gas_limit", "method_id"}

\* C17: runTickTock sends is_tick_tock = true, is_tock = true exactly when
\* which is "tock", and no inbound message; runTransaction sends the inbound
\* message and neither key; and a runTransaction made right after a runTickTock
\* with the same arguments sends the same params but for those two keys.
C17_TickTockDiscriminant ==
    [][/\ last'.op = "runTickTock" /\ last'.trace # <<>>
          /\ last'.trace[Len(last'.trace)].fn = "emulate_with_emulator"
          => LET sent == last'.trace[Len(last'.trace)]
             IN  /\ {"is_tick_tock", "is_tock"} \subseteq DOMAIN sent.params
                 /\ sent.params.is_tick_tock = "true"
                 /\ sent.params.is_tock =
                        IF last'.args.which = "tock" THEN "true" ELSE "false"
                 /\ sent.message = "null"
       /\ last'.op = "runTransaction" /\ last'.trace # <<>>
          /\ last'.trace[Len(last'.trace)].fn = "emulate_with_emulator"
          => LET sent == last'.trace[Len(last'.trace)]
             IN  /\ DOMAIN sent.params \cap {"is_tick_tock", "is_tock"} = {}
                 /\ sent.message = CellToBase64(last'.args.message)
                 /\ sent.message # "null"
                 /\ (/\ last.op = "runTickTock" /\ last.args = last'.args
                      /\ last.executor = last'.executor /\ SentCalls # {})
                    => sent.params =
                          [k \in DOMAIN SentParams \ {"is_tick_tock", "is_tock"} |->
                              SentParams[k]]]_vars

\* a tick was sent: is_tick_tock is true, is_tock false, no message
C17_Witness ==
    /\ last.op = "runTickTock" /\ SentCalls # {}
    /\ last.args.which = "tick"
    /\ SentParams.is_tick_tock = "true" /\ SentParams.is_tock = "false"
    /\ Trace[CHOOSE i \in SentCalls : TRUE].message = "null"

\* C18: when run_get_method answers ok with an output, runGetMethod returns
\* the output without its debug_log key, the value of debug_log as debugLogs
\* (undefined when the output has none), and the response's logs as logs.
C18_DebugLogSplit ==
    /\ last.op = "runGetMethod" /\ Answered
    /\ Get(Response, "ok") = "true"
    /\ "output" \in DOMAIN Response
    => /\ ~last.threw /\ last.result # Undefined
       /\ DOMAIN Returned = {"output", "logs", "debugLogs"}
       /\ DOMAIN Returned.output = DOMAIN ResponseOutput \ {"debug_log"}
       /\ \A k \in DOMAIN Returned.output : Returned.output[k] = ResponseOutput[k]
       /\ Returned.debugLogs = Get(ResponseOutput, "debug_log")
       /\ Returned.logs = Get(Response, "logs")
       /\ "debug_log" \in DOMAIN ResponseOutput =>
              Returned.logs # ResponseOutput.debug_log

\* an output with a debug_log was split
C18_Witness ==
    /\ last.op = "runGetMethod" /\ Answered
    /\ Response = Ok(GetMethodSuccess @@ [debug_log |-> "dbg1"])
    /\ last.result # Undefined
    /\ Returned.output = GetMethodSuccess
    /\ Returned.debugLogs = "dbg1" /\ Returned.logs = "logs1"

-----------------------------------------------------------------------------
(* Remote account lookup                                                   *)

\* the answer is not a 200 response that passes both schemas with a result
BadAnswer(res) ==
    \/ res.rejected
    \/ res.status # 200
    \/ res.data \in BadBodies

\* C19: when the request of a getContract call settles with a non-200 status,
\* with a body failing the envelope or the account schema, or with no result,
\* the call fails with an error, has made that one request only, and leaves the
\* stored contracts (knownContracts) as they were.
C19_FailedLookupStoresNothing ==
    [][\A l \in Lookups :
          /\ lookups[l].pc = "awaiting" /\ lookups'[l].pc = "done"
          /\ BadAnswer(lookups'[l].response)
          => /\ lookups'[l].threw /\ lookups'[l].error # ""
             /\ lookups'[l].result = Undefined
             /\ lookups'[l].requests = 1
             /\ contracts' = contracts]_vars

\* a 204 answer with a valid body failed the lookup; the address is not stored
C19_Witness ==
    \E l \in Lookups :
        /\ lookups[l].pc = "done" /\ lookups[l].threw
        /\ lookups[l].response.status = 204
        /\ lookups[l].response.data \in GoodBodies
        /\ AddressToString(lookups[l].address) \notin DOMAIN contracts
        /\ contracts # EmptyObj

-----------------------------------------------------------------------------
(* Signature ids                                                           *)

\* C20: a signature made by crypto.sign(data, secretKey) verifies with
\* crypto.signVerify(data, signature, publicKey) under the same signature id,
\* for the same data and the public key of the pair, whatever the global id
\* (absent, zero, positive, negative); and with the global id absent the
\* signature is the one the library's own sign makes.
C20_SignVerifyRoundTrip ==
    /\ \A ch \in signed.check :
          /\ ch.globalId = signed.globalId
          /\ ch.data = signed.data
          /\ [secretKey |-> signed.secretKey, publicKey |-> ch.publicKey] \in KeyPairs
          => ch.verified
    /\ signed.made /\ signed.globalId = Undefined =>
          signed.signature = originalSign(signed.data, signed.secretKey)

\* a signature made under the global id -6001 verified
C20_Witness ==
    /\ signed.made /\ signed.globalId = Some(-6001)
    /\ signed.data = <<72, 105>>
    /\ signed.signature.message = <<255, 255, 232, 143, 72, 105>>
    /\ \E ch \in signed.check :
          /\ ch.globalId = Some(-6001) /\ ch.data = signed.data /\ ch.verified
          /\ [secretKey |-> signed.secretKey, publicKey |-> ch.publicKey] \in KeyPairs

\* the most recent signature was made with an id and checked without one, or
\* made without an id and checked with one, on the same data
CrossChecked(ch) ==
    /\ ch.data = signed.data
    /\ \/ signed.globalId # Undefined /\ ch.globalId = Undefined
       \/ signed.globalId = Undefined /\ ch.globalId # Undefined

\* C21: a signature made under a signature id g differs from the library's
\* plain signature of the same data and key; signVerify of an object with no
\* id rejects it for that data, and signVerify of an object with an id rejects
\* a plain signature of the data, whatever the public key.
C21_SignatureIdSeparation ==
    /\ signed.made /\ signed.globalId # Undefined =>
          signed.signature # originalSign(signed.data, signed.secretKey)
    /\ \A ch \in signed.check : CrossChecked(ch) => ~ch.verified

\* a signature made under the id 123 was refused, for the same data and the
\* public key of the pair, by an object with no id
C21_Witness ==
    /\ signed.made /\ signed.globalId = Some(123)
    /\ signed.signature.message = <<0, 0, 0, 123>> \o signed.data
    /\ \E ch \in signed.check :
          /\ ch.globalId = Undefined /\ ch.data = signed.data /\ ~ch.verified
          /\ [secretKey |-> signed.secretKey, publicKey |-> ch.publicKey] \in KeyPairs

\* the prefix the signature id g stands for: none for an absent id
PrefixOf(g) == IF g = Undefined THEN <<>> ELSE Int32BE(The(g))

\* C22: after setSignatureId calls on one crypto object, sign signs, and
\* signVerify checks, the data behind the prefix of the last call's id alone;
\* after a last call with an absent id both are the library's own functions,
\* whatever id the object had before.
C22_LastSettingWins ==
    \A c \in crypto :
        c.before # Undefined =>
            \A data \in Datas, kp \in KeyPairs :
                LET expected == originalSign(PrefixOf(c.globalId) \o data, kp.secretKey)
                    plain == originalSign(data, kp.secretKey)
                IN  /\ cryptoSign(c.fns, data, kp.secretKey) = expected
                    /\ cryptoSignVerify(c.fns, data, expected, kp.publicKey)
                    /\ expected # plain =>
                          ~cryptoSignVerify(c.fns, data, plain, kp.publicKey)
                    /\ c.globalId = Undefined =>
                          /\ cryptoSign(c.fns, data, kp.secretKey) = plain
                          /\ \A g \in c.before :
                                g # Undefined =>
                                    ~cryptoSignVerify(c.fns, data,
                                         originalSign(PrefixOf(g) \o data,
                                                      kp.secretKey),
                                         kp.publicKey)

\* an object that had the id 123 was set to no id, then made a plain signature
C22_Witness ==
    /\ \E c \in crypto : c.before = Some(Some(123)) /\ c.globalId = Undefined
    /\ signed.made /\ signed.globalId = Undefined
    /\ signed.data = <<72, 105>> /\ signed.signature.message = <<72, 105>>

-----------------------------------------------------------------------------
(* Signature domains                                                       *)

\* the most recent call was signatureDomainPrefix(d)
PrefixOfDomain(d) == domain.op = "signatureDomainPrefix" /\ domain.arg = Some(d)

\* C23 as stated: signatureDomainPrefix returns null for the empty domain and
\* for the 32-byte empty-domain hash, returns any other 32-byte buffer
\* unchanged, returns a 32-byte hash for every l2 domain, and fails for a
\* buffer whose length is not 32.
C23_DomainPrefix ==
    \A d \in Domains :
        PrefixOfDomain(d) =>
            /\ d.kind = "object" /\ d.type = "empty" =>
                  ~domain.threw /\ domain.prefix = Undefined
            /\ d.kind = "buffer" /\ d.buf = SIGNATURE_DOMAIN_EMPTY_HASH =>
                  ~domain.threw /\ domain.prefix = Undefined
            /\ d.kind = "buffer" /\ Len(d.buf) = 32
                  /\ d.buf # SIGNATURE_DOMAIN_EMPTY_HASH =>
                  ~domain.threw /\ domain.prefix = Some(d.buf)
            /\ d.kind = "object" /\ d.type = "l2" =>
                  ~domain.threw /\ \E h \in domain.prefix : Len(h) = 32
            /\ d.kind = "buffer" /\ Len(d.buf) # 32 =>
                  domain.threw /\ domain.error # ""

\* C23: signatureDomainPrefix returns null for the empty domain and for the
\* 32-byte empty-domain hash, returns any other 32-byte buffer unchanged,
\* returns a 32-byte hash for an l2 domain whose globalId is a signed 32-bit
\* integer, and fails with an error for a buffer whose length is not 32 and
\* for an l2 domain whose globalId is outside that range; every non-null
\* prefix, also the one cryptoWithSignatureDomain installs, is 32 bytes long.
C23_DomainPrefixInRange ==
    /\ \A d \in Domains :
          PrefixOfDomain(d) =>
              /\ d.kind = "object" /\ d.type = "empty" =>
                    ~domain.threw /\ domain.prefix = Undefined
              /\ d.kind = "buffer" /\ d.buf = SIGNATURE_DOMAIN_EMPTY_HASH =>
                    ~domain.threw /\ domain.prefix = Undefined
              /\ d.kind = "buffer" /\ Len(d.buf) = 32
                    /\ d.buf # SIGNATURE_DOMAIN_EMPTY_HASH =>
                    ~domain.threw /\ domain.prefix = Some(d.buf)
              /\ d.kind = "object" /\ d.type = "l2" /\ IsInt32(d.globalId) =>
                    ~domain.threw /\ \E h \in domain.prefix : Len(h) = 32
              /\ d.kind = "object" /\ d.type = "l2" /\ ~IsInt32(d.globalId) =>
                    domain.threw /\ domain.error # "" /\ domain.prefix = Undefined
              /\ d.kind = "buffer" /\ Len(d.buf) # 32 =>
                    domain.threw /\ domain.error # "" /\ domain.prefix = Undefined
    /\ \A h \in domain.prefix : Len(h) = 32
    /\ \A c \in domain.crypto : \A h \in c.sign \cup c.signVerify : Len(h) = 32

\* signatureDomainPrefix gave a 32-byte hash for the l2 domain of the id -6001
C23_Witness ==
    /\ PrefixOfDomain(ObjectDomain("l2", Wide(-6001)))
    /\ ~domain.threw
    /\ \E h \in domain.prefix : Len(h) = 32 /\ h # SIGNATURE_DOMAIN_EMPTY_HASH

-----------------------------------------------------------------------------
(* Global id of a config                                                   *)

\* C24: getGlobalId returns the global id stored at parameter 19 of the
\* config root, and returns undefined, without failing, when the config
\* dictionary holds no parameter 19.
C24_GetGlobalId ==
    globalIdCall.made =>
        /\ globalIdCall.stored # Undefined =>
              ~globalIdCall.threw /\ globalIdCall.value = globalIdCall.stored
        /\ GLOBAL_ID_IDX \notin DOMAIN globalIdCall.configRoot =>
              ~globalIdCall.threw /\ globalIdCall.value = Undefined

\* C30: for every signed 32-bit global id g stored at parameter 19,
\* getGlobalId(config) returns g, and setSignatureId(crypto, getGlobalId(config))
\* returns and installs the 4-byte prefix that setSignatureId(crypto, g) installs.
C30_GlobalIdWidthAgreement ==
    /\ globalIdCall.made /\ globalIdCall.stored # Undefined =>
          ~globalIdCall.threw /\ globalIdCall.value = globalIdCall.stored
    /\ globalIdCall.set /\ globalIdCall.stored # Undefined =>
          /\ ~globalIdCall.setThrew
          /\ globalIdCall.fns =
                Some(setSignatureId(Some(ToNumber(The(globalIdCall.stored)))))

-----------------------------------------------------------------------------
(* Handle lifecycle                                                        *)

\* the native calls of the step's facade call that create or destroy a handle
LifecycleCalls(fn) ==
    {i \in 1..Len(last'.trace) : last'.trace[i].fn = fn}

FailedEmulate ==
    /\ Emulation /\ last.threw
    /\ Len(Trace) >= 1 /\ Trace[Len(Trace)].fn = "emulate_with_emulator"
    /\ \/ Trace[Len(Trace)].threw
       \/ last.raw.kind = "malformed"
       \/ Answered /\ Get(Response, "ok") = "false"

\* C26: after a runTransaction/runTickTock call whose emulate_with_emulator
\* threw, returned malformed JSON or answered ok = false, the executor caches
\* the handle that call passed to the engine, under the call's key; a
\* following call with the same key makes one native call, emulate_with_emulator
\* on that handle, and leaves the cache and the engine's handles alone.
C26_FailedEmulateKeepsHandle ==
    [][\A e \in Executors :
          FailedEmulate /\ last.executor = e =>
              /\ emulator[e] = Some([ptr |-> Trace[Len(Trace)].ptr,
                                     config |-> last.config,
                                     verbosity |-> last.verbosity])
              /\ last'.executor = e
                    /\ last'.op \in {"runTransaction", "runTickTock"}
                    /\ last'.config = last.config
                    /\ last'.verbosity = last.verbosity
                    => /\ Len(last'.trace) = 1
                       /\ last'.trace[1].fn = "emulate_with_emulator"
                       /\ last'.trace[1].ptr = Trace[Len(Trace)].ptr
                       /\ emulator' = emulator
                       /\ handles' = handles]_vars

\* a call whose engine call returned malformed JSON on a handle cached before
\* failed, and the handle is still cached and live
C26_Witness ==
    /\ FailedEmulate /\ last.raw.kind = "malformed"
    /\ Len(Trace) = 1
    /\ emulator[last.executor] # Undefined
    /\ The(emulator[last.executor]).ptr = Trace[1].ptr
    /\ Trace[1].ptr \in Live(handles)

-----------------------------------------------------------------------------
(* Contract cache                                                          *)

\* C27: between two clearKnownContracts calls the storage sends at most one
\* remote lookup per address and makes at most one SmartContract object per
\* address, so that every getContract call for the address returns that one
\* object, also when getContract calls for the address overlap.
C27_ContractCacheUniqueness ==
    \A a \in Addresses : fetched[a].requests <= 1 /\ fetched[a].created <= 1

-----------------------------------------------------------------------------
(* Loading the emulator module                                             *)

Awaiting(c) == wasm.creators[c].pc = "awaiting"

\* C28: however many emulatorWasmLoaded calls are made, also while earlier
\* callers still await, init is started once, by the first call; every caller
\* holds the one initializationPromise; the promise is fulfilled only after
\* init succeeded and rejected only after init failed, and every caller that
\* has resumed has resumed the same way: with an executor after a success,
\* with the rejection after a failure; a failed init is never started again.
C28_WasmLatch ==
    /\ wasm.inits <= 1
    /\ wasm.inits = 1 <=> wasm.wasmInitializationStarted
    /\ wasm.wasmInitializationStarted <=>
          \E c \in Creators : wasm.creators[c].pc # "idle"
    /\ \A c \in Creators :
          /\ wasm.creators[c].pc # "idle" =>
                wasm.creators[c].promise = "initializationPromise"
          /\ wasm.creators[c].pc = "created" =>
                wasm.init = "fulfilled" /\ wasm.initializationPromise = "fulfilled"
          /\ wasm.creators[c].pc = "failed" =>
                wasm.init = "rejected" /\ wasm.initializationPromise = "rejected"
    /\ wasm.initializationPromise # "pending" =>
          wasm.initializationPromise = wasm.init

\* init failed; one caller has seen the rejection, another called after the
\* failure and awaits the same promise, and init was started once
C28_Witness ==
    /\ wasm.init = "rejected" /\ wasm.inits = 1
    /\ \E c, d \in Creators :
          /\ wasm.creators[c].pc = "failed"
          /\ Awaiting(d)
          /\ wasm.creators[d].promise = wasm.creators[c].promise

-----------------------------------------------------------------------------
(* Crypto objects                                                          *)

\* what sign of the object at ref does is what the id g asks for
BehavesAs(ref, g) ==
    \A data \in Datas, kp \in KeyPairs :
        LET fns == The(cryptoObjects.heap[ref])
            expected == originalSign(PrefixOf(g) \o data, kp.secretKey)
        IN  /\ cryptoSign(fns, data, kp.secretKey) = expected
            /\ cryptoSignVerify(fns, data, expected, kp.publicKey)

\* C29: every cryptoWithSignatureId call returns an object of its own: no two
\* holders hold the same object and none holds the library's; each object
\* signs and verifies under the id last set on it, whatever ids were set on
\* the other object before or after, and the library's functions stay the
\* plain ones.
C29_CryptoObjectsIndependent ==
    /\ \A h \in Holders :
          cryptoObjects.held[h] # "" =>
              /\ cryptoObjects.held[h] # Library
              /\ \A k \in Holders \ {h} :
                    cryptoObjects.held[k] # cryptoObjects.held[h]
              /\ BehavesAs(cryptoObjects.held[h], cryptoObjects.ids[h])
    /\ BehavesAs(Library, Undefined)
    /\ \A sig \in cryptoObjects.signature :
          sig.signature =
              originalSign(PrefixOf(cryptoObjects.ids[sig.holder]) \o sig.data,
                           sig.secretKey)

\* holder1's object has the id 123, holder2's object has another id, and
\* holder1 has just signed under 123
C29_Witness ==
    /\ cryptoObjects.ids["holder1"] = Some(123)
    /\ cryptoObjects.held["holder2"] # ""
    /\ cryptoObjects.ids["holder2"] = Some(-6001)
    /\ \E sig \in cryptoObjects.signature :
          /\ sig.holder = "holder1" /\ sig.data = <<72, 105>>
          /\ sig.signature.message = <<0, 0, 0, 123, 72, 105>>

====
